---- MODULE Spec2Model ----
(***************************************************************************)
(* Model of the demand forecasting and inventory optimisation pipeline of  *)
(* analytics/services.py (ARIMAForecastingService).                        *)
(*                                                                         *)
(* Dates are day numbers: day 0 is Monday 2024-01-01.  A timestamp is      *)
(* modelled by its day.  Floating point values are modelled by integers    *)
(* (exact rationals where a quotient is needed) plus the two non-finite    *)
(* values NaN and Inf.                                                     *)
(***************************************************************************)
EXTENDS Integers, Sequences, FiniteSets, TLC

VARIABLES orders,        \* OrderItem rows joined with their Order, in creation order
          medicines,     \* Medicine rows: id -> [unit_price]
          forecasts,     \* persisted DemandForecast rows, in creation order
          optimizations, \* persisted InventoryOptimization rows, in creation order
          trends,        \* persisted SalesTrend rows, in creation order
          actual,        \* argument of calculate_model_metrics
          predicted,     \* argument of calculate_model_metrics
          history,       \* OrderStatusHistory rows, in creation order
          cart_items,    \* CartItem rows of the sales rep's cart, in creation order
          requests,      \* the requests in flight: what each has read and its next step
          outcome        \* what the last call returned or raised

vars == <<orders, medicines, forecasts, optimizations, trends, actual, predicted,
          history, cart_items, requests, outcome>>

----------------------------------------------------------------------------
(* Bounds of the model *)

MaxLines == 2          \* order lines in the database (series specification)
Now == 250             \* timezone.now(), as a day number
MaxArr == 3            \* length of the arrays given to calculate_model_metrics
MaxHorizon == 2        \* largest forecast_horizon requested
MaxForecasts == 1      \* persisted DemandForecast rows
MaxOptimizations == 1  \* persisted InventoryOptimization rows
MaxRuns == 2           \* persisted DemandForecast rows (alerts and service specifications)
MaxStock == 12         \* largest current_stock given to _calculate_priority
MaxReorderPoint == 8   \* largest |optimal_reorder_point| given to _calculate_priority
MaxOrders == 2         \* orders created through OrderCreateView
MaxAdds == 3           \* add-to-cart requests

(* Program constants *)
min_data_points == 30
DefaultWindowDays == 365
ordering_cost == 50
max_p == 5
max_q == 5
DefaultForecastHorizon == 4
DefaultServiceLevel == 95
DefaultLeadTimeDays == 7
DefaultHoldingCostPercentage == 20

----------------------------------------------------------------------------
(* Calendar: 2024, a leap year; day 0 = Monday 1 January *)

MonthStarts == <<0, 31, 60, 91, 121, 152, 182, 213, 244, 274, 305, 335, 366>>

WeekStart(d) == d - (d % 7)

MonthIndex(d) == CHOOSE i \in 1..(Len(MonthStarts) - 1) :
                    MonthStarts[i] <= d /\ d < MonthStarts[i + 1]

MonthStart(d) == MonthStarts[MonthIndex(d)]

MonthEnds == {MonthStarts[i + 1] - 1 : i \in 1..(Len(MonthStarts) - 1)}

\* The sequence s with every element evaluated
Stored(s) == SubSeq(s, 1, Len(s))

\* A finite set of integers as an ascending sequence
SortedSeq(S) ==
    [i \in 1..Cardinality(S) |->
        CHOOSE d \in S : Cardinality({x \in S : x < d}) = i - 1]

----------------------------------------------------------------------------
(* Order lines *)

Statuses == {"pending", "confirmed", "processing", "shipped", "delivered",
             "cancelled"}

PeriodTypes == {"daily", "weekly", "monthly"}

MedicineIds == {1, 2}

None == <<>>

NoSeries == <<>>

\* order__status__in of the query of prepare_sales_data
SalesStatuses == {"confirmed", "processing", "shipped", "delivered"}

WindowStart(start_date) ==
    IF start_date = None THEN Now - DefaultWindowDays ELSE start_date[1]

WindowEnd(end_date) ==
    IF end_date = None THEN Now ELSE end_date[1]

\* OrderItem.objects.filter(medicine_id, order__created_at__range,
\* order__status__in)
QueryStatusesWithPending == SalesStatuses \cup {"pending"}

QueryStatuses == SalesStatuses

OrderItemsOf(ord, medicine_id, start_date, end_date) ==
    SelectSeq(ord, LAMBDA l :
        /\ l.medicine = medicine_id
        /\ l.day >= WindowStart(start_date)
        /\ l.day <= WindowEnd(end_date)
        /\ l.status \in QueryStatuses)

\* The group key of a row: .dt.date, to_period('W').start_time.date,
\* to_period('M').start_time.date
GroupKey(period_type, d) ==
    CASE period_type = "daily" -> d
      [] period_type = "weekly" -> WeekStart(d)
      [] period_type = "monthly" -> MonthStart(d)

RECURSIVE SumQuantity(_, _, _, _)
SumQuantity(items, period_type, key, i) ==
    IF i > Len(items) THEN 0
    ELSE (IF GroupKey(period_type, items[i].day) = key
            THEN items[i].quantity ELSE 0)
         + SumQuantity(items, period_type, key, i + 1)

GroupKeys(items, period_type) ==
    {GroupKey(period_type, items[i].day) : i \in DOMAIN items}

SetMin(S) == CHOOSE x \in S : \A y \in S : x <= y

SetMax(S) == CHOOSE x \in S : \A y \in S : x >= y

\* pd.date_range(start, end, freq): 'D' every day, 'W' (= 'W-SUN') every
\* Sunday, 'M' every month end, within [start, end]
FirstSunday(start) == start + (((6 - (start % 7)) + 7) % 7)

DateRangeDaily(start, end) ==
    Stored([i \in 1..(end - start + 1) |-> start + (i - 1)])

DateRangeWeekAnchored(start, end) ==
    LET first == FirstSunday(start)
        n == IF first > end THEN 0 ELSE ((end - first) \div 7) + 1
    IN  Stored([i \in 1..n |-> first + 7 * (i - 1)])

DateRangeWeekly(start, end) == DateRangeWeekAnchored(start, end)

DateRangeMonthly(start, end) ==
    SortedSeq({e \in MonthEnds : start <= e /\ e <= end})

DateRange(start, end, period_type) ==
    CASE period_type = "daily" -> DateRangeDaily(start, end)
      [] period_type = "weekly" -> DateRangeWeekly(start, end)
      [] period_type = "monthly" -> DateRangeMonthly(start, end)

\* df.set_index('date').reindex(date_range.date, fill_value=0)
Reindex(items, period_type, dates) ==
    LET keys == GroupKeys(items, period_type)
    IN  Stored([i \in DOMAIN dates |->
                  [date |-> dates[i],
                   quantity |-> IF dates[i] \in keys
                                  THEN SumQuantity(items, period_type,
                                                   dates[i], 1)
                                  ELSE 0]])

\* prepare_sales_data: [raised, error, series]
PrepareSalesData(ord, medicine_id, period_type, start_date, end_date) ==
    LET items == OrderItemsOf(ord, medicine_id, start_date, end_date)
        keys == GroupKeys(items, period_type)
    IN  IF Len(items) = 0
          THEN [raised |-> TRUE, error |-> "ValueError: No sales data found",
                series |-> NoSeries]
        ELSE IF period_type \notin PeriodTypes
          THEN [raised |-> TRUE, error |-> "ValueError: period_type",
                series |-> NoSeries]
        ELSE [raised |-> FALSE, error |-> "",
              series |-> Reindex(items, period_type,
                            DateRange(SetMin(keys), SetMax(keys), period_type))]

----------------------------------------------------------------------------
(* The series builder on a growing order history *)

Idle == [op |-> "none"]

\* Monday 1 January, Thursday 4 January (same week and month), Saturday
\* 3 February (four weeks and one month later)
LineDays == {0, 3, 33}

\* Lines of medicine 1 in every status, and lines of medicine 2
LineInputs ==
    [medicine : {1}, day : LineDays, quantity : {1}, status : Statuses]
    \cup [medicine : {1}, day : LineDays, quantity : {2},
          status : {"delivered"}]
    \cup [medicine : {2}, day : {3}, quantity : {2},
          status : {"delivered", "pending"}]

PeriodInputs == PeriodTypes \cup {"hourly"}

\* <<start_date, end_date>>: the default window, and days 2..20
WindowInputs == {<<None, None>>, <<(<<2>>), (<<20>>)>>}

\* The Medicine rows: unit_price is a number
MedicineRows ==
    [m \in MedicineIds |-> [unit_price |-> IF m = 1 THEN 10 ELSE 4]]

InitCommon ==
    /\ medicines = MedicineRows
    /\ forecasts = <<>>
    /\ optimizations = <<>>
    /\ trends = <<>>
    /\ history = <<>>
    /\ cart_items = <<>>
    /\ requests = <<>>
    /\ actual = <<>>
    /\ predicted = <<>>
    /\ outcome = Idle

InitSeries ==
    /\ orders = <<>>
    /\ InitCommon

\* An order line is stored; created_at is the current time, so rows are
\* created in chronological order
AddLine ==
    /\ Len(orders) < MaxLines
    /\ \E l \in LineInputs :
          /\ Len(orders) > 0 => orders[Len(orders)].day <= l.day
          /\ orders' = Append(orders, l)
    /\ outcome' = Idle
    /\ UNCHANGED <<medicines, forecasts, optimizations, trends, actual, predicted, history, cart_items, requests>>

\* A call of prepare_sales_data
PrepareSalesDataCall ==
    /\ \E m \in MedicineIds, p \in PeriodInputs, w \in WindowInputs :
          \E r \in {PrepareSalesData(orders, m, p, w[1], w[2])} :
              outcome' = [op |-> "prepare_sales_data", medicine_id |-> m,
                          period_type |-> p, start_date |-> w[1],
                          end_date |-> w[2],
                          raised |-> r.raised, error |-> r.error,
                          series |-> r.series]
    /\ UNCHANGED <<orders, medicines, forecasts, optimizations, trends, actual,
                   predicted, history, cart_items, requests>>

NextSeries == AddLine \/ PrepareSalesDataCall

SpecSeries == InitSeries /\ [][NextSeries]_vars

----------------------------------------------------------------------------
(* Floating point values: a finite value is the rational num / den with   *)
(* den > 0; NaN and Inf are the non-finite values                          *)

Fin(n) == [kind |-> "finite", num |-> n, den |-> 1]

Ratio(n, d) == [kind |-> "finite", num |-> n, den |-> d]

NaN == [kind |-> "nan", num |-> 0, den |-> 1]

Inf == [kind |-> "inf", num |-> 0, den |-> 1]

\* np.isfinite
IsFinite(x) == x.kind = "finite"

Abs(n) == IF n < 0 THEN -n ELSE n

RECURSIVE Gcd(_, _)
Gcd(a, b) == IF b = 0 THEN a ELSE Gcd(b, a % b)

Lcm(a, b) == (a \div Gcd(a, b)) * b

\* x[lo] + ... + x[hi]
RECURSIVE RangeSum(_, _, _)
RangeSum(x, lo, hi) ==
    IF lo > hi THEN 0
    ELSE IF lo = hi THEN x[lo]
    ELSE LET mid == (lo + hi) \div 2
         IN  RangeSum(x, lo, mid) + RangeSum(x, mid + 1, hi)

\* The sum of a sequence of integers
SeqSum(s) == LET x == Stored(s) IN RangeSum(x, 1, Len(x))

----------------------------------------------------------------------------
(* calculate_model_metrics *)

\* The pairs (actual[i], predicted[i])
Pairs(act, pred) ==
    Stored([i \in DOMAIN act |-> [a |-> act[i], p |-> pred[i]]])

\* mask = np.isfinite(actual) & np.isfinite(predicted)
Mask(x) == IsFinite(x.a) /\ IsFinite(x.p)

\* actual[mask], predicted[mask], as pairs of integers
Masked(act, pred) ==
    LET kept == SelectSeq(Pairs(act, pred), Mask)
    IN  Stored([k \in DOMAIN kept |->
                  [a |-> kept[k].a.num, p |-> kept[k].p.num]])

\* np.where(actual != 0, actual, 1)
MapeDenominator(a) == IF a # 0 THEN a ELSE 1

\* The least common multiple of the denominators of x[lo..hi]
RECURSIVE LcmOfDenominators(_, _, _)
LcmOfDenominators(x, lo, hi) ==
    IF lo > hi THEN 1
    ELSE IF lo = hi THEN Abs(MapeDenominator(x[lo].a))
    ELSE LET mid == (lo + hi) \div 2
         IN  Lcm(LcmOfDenominators(x, lo, mid),
                 LcmOfDenominators(x, mid + 1, hi))

\* (actual - predicted) ** 2
SquaredError(x) == (x.a - x.p) * (x.a - x.p)

\* |actual - predicted|
AbsError(x) == Abs(x.a - x.p)

\* |(actual - predicted) / denominator|, in units of 1 / l
AbsPctError(x, l) == Abs(x.a - x.p) * (l \div Abs(MapeDenominator(x.a)))

\* The metrics of the finite pairs.  rmse is given by its square, the mean
\* squared error (rmse = sqrt(mse)).
CalculateModelMetrics(act, pred) ==
    LET x == Masked(act, pred)
        n == Len(x)
        l == LcmOfDenominators(x, 1, n)
    IN  IF n = 0
          THEN [mse |-> Inf, mae |-> Inf, mape |-> Inf]
          ELSE [mse |-> Ratio(SeqSum([i \in 1..n |-> SquaredError(x[i])]), n),
                mae |-> Ratio(SeqSum([i \in 1..n |-> AbsError(x[i])]), n),
                mape |-> Ratio(100 * SeqSum([i \in 1..n |->
                                               AbsPctError(x[i], l)]),
                               n * l)]

----------------------------------------------------------------------------
(* calculate_model_metrics on bounded arrays *)

ActualInputs == {Fin(0), Fin(10), Fin(20), NaN}

PredictedInputs == {Fin(5), Fin(10), Fin(15), NaN, Inf}

InitMetrics ==
    /\ orders = <<>>
    /\ medicines = MedicineRows
    /\ forecasts = <<>>
    /\ optimizations = <<>>
    /\ trends = <<>>
    /\ history = <<>>
    /\ cart_items = <<>>
    /\ requests = <<>>
    /\ outcome = Idle
    /\ \E n \in 0..MaxArr :
          /\ actual \in [1..n -> ActualInputs]
          /\ predicted \in [1..n -> PredictedInputs]

CalculateModelMetricsCall ==
    /\ outcome' = [op |-> "calculate_model_metrics",
                   metrics |-> CalculateModelMetrics(actual, predicted)]
    /\ UNCHANGED <<orders, medicines, forecasts, optimizations, trends, actual,
                   predicted, history, cart_items, requests>>

NextMetrics == CalculateModelMetricsCall

SpecMetrics == InitMetrics /\ [][NextMetrics]_vars

----------------------------------------------------------------------------
(* generate_forecast.  What pmdarima and statsmodels return is an input  *)
(* of the model: the order found by auto_arima (or its failure), whether   *)
(* the fit raises, the in-sample fitted values and the forecast values.    *)

\* find_optimal_arima_params: res is the order of the model auto_arima
\* selected, or <<>> when auto_arima raised
FindOptimalArimaParamsWithoutFallback(res) == res

FindOptimalArimaParams(res) == IF res = <<>> THEN <<1, 1, 1>> ELSE res

\* len(sales_data) < self.min_data_points
TooFewAtThreshold(n) == n <= min_data_points

TooFewDataPoints(n) == n < min_data_points

\* fitted_model.forecast(steps=forecast_horizon) and
\* fitted_model.get_forecast(steps=forecast_horizon).conf_int()
ForecastStepsPlusOne(forecast_horizon) == forecast_horizon + 1

ForecastSteps(forecast_horizon) == forecast_horizon

ConfIntSteps(forecast_horizon) == forecast_horizon

\* fitted_model.fittedvalues: one value per observation
FittedValues(kind, ts) ==
    Stored([i \in DOMAIN ts |->
              IF kind = "nan" THEN NaN ELSE Fin(ts[i].num + 1)])

\* conf_int(): a band around each forecast value
ConfInt(values, steps) ==
    [lower |-> [i \in 1..steps |->
                  IF IsFinite(values[i]) THEN Fin(values[i].num - 2) ELSE NaN],
     upper |-> [i \in 1..steps |->
                  IF IsFinite(values[i]) THEN Fin(values[i].num + 2) ELSE NaN]]

\* DemandForecast.objects.create(...)
DemandForecastRow(id, medicine_id, forecast_period, forecast_horizon, order, metrics, values, conf, sales) ==
    [id |-> id,
     medicine |-> medicine_id,
     forecast_period |-> forecast_period,
     forecast_horizon |-> forecast_horizon,
     arima |-> order,
     mse |-> metrics.mse,
     mae |-> metrics.mae,
     mape |-> metrics.mape,
     forecasted_demand |-> values,
     confidence_intervals |-> conf,
     training_data_start |-> sales[1].date,
     training_data_end |-> sales[Len(sales)].date,
     training_data_points |-> Len(sales)]

ForecastFailure(medicine_id, forecast_period, error, got, need) ==
    [op |-> "generate_forecast", medicine_id |-> medicine_id,
     period_type |-> forecast_period, raised |-> TRUE, error |-> error,
     got |-> got, need |-> need, forecast_id |-> 0, horizon |-> 0]

ForecastSuccess(row, forecast_horizon) ==
    [op |-> "generate_forecast", medicine_id |-> row.medicine,
     period_type |-> row.forecast_period, raised |-> FALSE, error |-> "",
     got |-> row.training_data_points, need |-> min_data_points,
     forecast_id |-> row.id, horizon |-> forecast_horizon]

\* The rows persisted when generate_forecast raises: the except clause
\* re-raises and nothing was created
PersistedOnFailureWithPartialRow(fc, medicine_id, forecast_period) ==
    Append(fc, [id |-> Len(fc) + 1, medicine |-> medicine_id,
                forecast_period |-> forecast_period])

PersistedOnFailure(fc, medicine_id, forecast_period) == fc

AutoArimaInputs == {<<>>, <<2, 1, 0>>}

FittedInputs == {"biased", "nan"}

\* Every forecast value: a finite demand, or NaN
ForecastValueInputs == {Fin(10), NaN}

MedicineIdInputs == MedicineIds \cup {3}

Line(m, d, st, q) == [medicine |-> m, day |-> d, quantity |-> q, status |-> st]

\* Order histories: none; 36 days; 211 days (30 weeks apart); a pending
\* order only; 21 days
DbInputs ==
    { <<>>,
      <<Line(1, 0, "confirmed", 1), Line(1, 35, "delivered", 2)>>,
      <<Line(1, 0, "shipped", 1), Line(1, 210, "processing", 1)>>,
      <<Line(1, 0, "pending", 1)>>,
      <<Line(1, 0, "confirmed", 2), Line(1, 20, "confirmed", 1)>> }

InitForecast ==
    /\ orders \in DbInputs
    /\ InitCommon

\* generate_forecast up to the model fit: the medicine is looked up, the
\* series is built and its length is checked
Precheck(ord, meds, medicine_id, forecast_period) ==
    LET sd == PrepareSalesData(ord, medicine_id, forecast_period, None, None)
    IN  IF medicine_id \notin DOMAIN meds
          THEN [raised |-> TRUE, error |-> "Medicine.DoesNotExist", got |-> 0,
                series |-> NoSeries]
        ELSE IF sd.raised
          THEN [raised |-> TRUE, error |-> sd.error, got |-> 0,
                series |-> NoSeries]
        ELSE IF TooFewDataPoints(Len(sd.series))
          THEN [raised |-> TRUE,
                error |-> "ValueError: Insufficient data points",
                got |-> Len(sd.series), series |-> NoSeries]
        ELSE [raised |-> FALSE, error |-> "", got |-> Len(sd.series),
              series |-> sd.series]

\* ts_data = sales_data.set_index('date')['quantity']
TsData(series) == Stored([i \in DOMAIN series |-> Fin(series[i].quantity)])

\* The metrics of the in-sample fitted values
InSampleMetrics(series, kind) ==
    LET ts == TsData(series)
    IN  CalculateModelMetrics(ts, FittedValues(kind, ts))

\* generate_forecast raises before the model is fitted: unknown medicine,
\* no sales data, invalid period, too few observations
GenerateForecastRejected ==
    /\ \E m \in MedicineIdInputs, p \in PeriodInputs :
          \E pre \in {Precheck(orders, medicines, m, p)} :
              /\ pre.raised
              /\ forecasts' = PersistedOnFailure(forecasts, m, p)
              /\ outcome' = ForecastFailure(m, p, pre.error, pre.got,
                                            min_data_points)
    /\ UNCHANGED <<orders, medicines, optimizations, trends, actual, predicted, history, cart_items, requests>>

\* generate_forecast reaches the model fit, and the fit or the forecast
\* raises, or the creation of the row raises
GenerateForecastFitRaises ==
    /\ \E m \in MedicineIdInputs, p \in PeriodInputs,
          error \in {"ARIMA fit error", "DatabaseError"} :
          \E pre \in {Precheck(orders, medicines, m, p)} :
              /\ ~pre.raised
              /\ forecasts' = PersistedOnFailure(forecasts, m, p)
              /\ outcome' = ForecastFailure(m, p, error, pre.got,
                                            min_data_points)
    /\ UNCHANGED <<orders, medicines, optimizations, trends, actual, predicted, history, cart_items, requests>>

\* generate_forecast succeeds: the row is created and returned
GenerateForecastCreated ==
    /\ Len(forecasts) < MaxForecasts
    /\ \E m \in MedicineIdInputs, p \in PeriodInputs :
          \E pre \in {Precheck(orders, medicines, m, p)} :
              /\ ~pre.raised
              /\ \E fitted \in FittedInputs :
                   \E metrics \in {InSampleMetrics(pre.series, fitted)} :
                     \E h \in 1..MaxHorizon, res \in AutoArimaInputs :
                       \E values \in {[i \in 1..ForecastSteps(h) |-> v] :
                                          v \in ForecastValueInputs} :
                         \E row \in {DemandForecastRow(
                                        Len(forecasts) + 1, m, p, h,
                                        FindOptimalArimaParams(res),
                                        metrics, values,
                                        ConfInt(values, ConfIntSteps(h)),
                                        pre.series)} :
                             /\ forecasts' = Append(forecasts, row)
                             /\ outcome' = ForecastSuccess(row, h)
    /\ UNCHANGED <<orders, medicines, optimizations, trends, actual, predicted, history, cart_items, requests>>

NextForecast ==
    \/ GenerateForecastRejected
    \/ GenerateForecastFitRaises
    \/ GenerateForecastCreated

SpecForecast == InitForecast /\ [][NextForecast]_vars

----------------------------------------------------------------------------
(* optimize_inventory_levels.  Forecast values are integers; the z-score   *)
(* is in hundredths.  The integer conversions int(...) are computed        *)
(* exactly by integer square roots.                                         *)

NegInf == [kind |-> "inf", num |-> -1, den |-> 1]

AllFinite(x) == \A i \in DOMAIN x : x[i].kind = "finite"

Sign(n) == IF n < 0 THEN -1 ELSE IF n = 0 THEN 0 ELSE 1

\* The largest r in lo..hi with r * r <= x
RECURSIVE SqrtBetween(_, _, _)
SqrtBetween(x, lo, hi) ==
    IF lo >= hi THEN lo
    ELSE LET mid == (lo + hi + 1) \div 2
         IN  IF mid * mid <= x THEN SqrtBetween(x, mid, hi)
             ELSE SqrtBetween(x, lo, mid - 1)

\* floor(sqrt(x)) and ceil(sqrt(x)) of an integer 0 <= x < 2^31
FloorSqrt(x) == SqrtBetween(x, 0, IF x < 46340 THEN x ELSE 46340)

CeilSqrt(x) == LET r == FloorSqrt(x) IN IF r * r = x THEN r ELSE r + 1

\* stats.norm.ppf at the probabilities used, rounded to hundredths
NormPpfHundredths ==
    [p \in {10, 50, 90, 95, 99} |->
        IF p = 10 THEN -128 ELSE IF p = 50 THEN 0 ELSE IF p = 90 THEN 128
        ELSE IF p = 95 THEN 164 ELSE 233]

\* z_score = stats.norm.ppf(service_level / 100): NaN outside [0, 1],
\* -inf at 0, +inf at 1
ZScore(service_level) ==
    IF service_level < 0 \/ service_level > 100 THEN NaN
    ELSE IF service_level = 0 THEN NegInf
    ELSE IF service_level = 100 THEN Inf
    ELSE Ratio(NormPpfHundredths[service_level], 100)

\* n * n * np.var(forecasted_demand) = n * sum(x^2) - sum(x)^2
ScaledVariance(x) ==
    Len(x) * SeqSum([i \in DOMAIN x |-> x[i] * x[i]]) - SeqSum(x) * SeqSum(x)

\* int(safety_stock), safety_stock = z * std * sqrt(lead / 7), for a finite
\* z = zc / 100 and lead >= 0: truncation toward zero of
\* sign(zc) * sqrt(zc^2 * V * lead / (70000 * n^2))
SafetyStockInt(zc, V, n, lead_time_days) ==
    Sign(zc) * FloorSqrt((zc * zc * V * lead_time_days)
                            \div (7 * 100 * 100 * n * n))

\* int(avg_demand_lead_time + safety_stock), with
\* avg_demand_lead_time = (S / n) * (lead / 7): the floor of the sum when
\* it is not negative and its ceiling when it is
ReorderPoint(zc, S, V, n, lead_time_days) ==
    LET W == 7 * zc * zc * V * lead_time_days
        lo == IF zc >= 0 THEN FloorSqrt(W) ELSE -CeilSqrt(W)
        hi == IF zc >= 0 THEN CeilSqrt(W) ELSE -FloorSqrt(W)
        fl == (lo + 100 * S * lead_time_days) \div (700 * n)
        ce == -((-(hi + 100 * S * lead_time_days)) \div (700 * n))
    IN  IF fl >= 0 THEN fl ELSE ce

\* optimal_maximum_stock = reorder_point + optimal_order_quantity
MaximumStockWithoutReorderPoint(reorder_point, optimal_order_quantity) ==
    optimal_order_quantity

OptimalMaximumStock(reorder_point, optimal_order_quantity) ==
    reorder_point + optimal_order_quantity

\* int(np.sqrt(2 * annual_demand * ordering_cost / holding_cost_per_unit))
\* with annual_demand = S * 52 / n and holding_cost_per_unit = h / 100,
\* S and h of the same sign
EconomicOrderQuantityTimesHoldingCost(S, n, h) ==
    FloorSqrt((2 * 52 * ordering_cost * Abs(S) * Abs(h)) \div (100 * n))

EconomicOrderQuantity(S, n, h) ==
    FloorSqrt((2 * 52 * ordering_cost * 100 * Abs(S)) \div (n * Abs(h)))

OptimizeRaised(error) == [raised |-> TRUE, error |-> error]

\* The body of optimize_inventory_levels up to the creation of the row.
\* int() of a NaN raises ValueError and int() of an infinity raises
\* OverflowError; numpy divisions by zero and square roots of negative
\* numbers give inf or NaN and do not raise.
OptimizeInventoryLevels(forecast, unit_price, service_level, lead_time_days, holding_cost_percentage) ==
    LET fd == forecast.forecasted_demand
        n == Len(fd)
        z == ZScore(service_level)
        x == Stored([i \in DOMAIN fd |-> fd[i].num])
        S == SeqSum(x)
        V == ScaledVariance(x)
        h == unit_price * holding_cost_percentage
    IN  IF n = 0 \/ ~AllFinite(fd) \/ z.kind = "nan" \/ lead_time_days < 0
          THEN OptimizeRaised("ValueError")
        ELSE IF z.kind = "inf"
          THEN IF V = 0 \/ lead_time_days = 0
                 THEN OptimizeRaised("ValueError")
                 ELSE OptimizeRaised("OverflowError")
        ELSE IF h = 0
          THEN IF S > 0 THEN OptimizeRaised("OverflowError")
               ELSE OptimizeRaised("ValueError")
        ELSE IF S # 0 /\ Sign(S) # Sign(h)
          THEN OptimizeRaised("ValueError")
        ELSE
          LET reorder_point == ReorderPoint(z.num, S, V, n, lead_time_days)
              optimal_order_quantity == EconomicOrderQuantity(S, n, h)
          IN  [raised |-> FALSE, error |-> "",
               medicine |-> forecast.medicine,
               demand_forecast |-> forecast.id,
               service_level |-> service_level,
               lead_time_days |-> lead_time_days,
               holding_cost_percentage |-> holding_cost_percentage,
               optimal_reorder_point |-> reorder_point,
               optimal_order_quantity |-> optimal_order_quantity,
               optimal_maximum_stock |->
                   OptimalMaximumStock(reorder_point, optimal_order_quantity),
               safety_stock |-> SafetyStockInt(z.num, V, n, lead_time_days),
               expected_holding_cost |->
                   Ratio(optimal_order_quantity * h, 2 * 100),
               expected_stockout_cost |->
                   Ratio((100 - service_level) * 52 * S * unit_price,
                         100 * n * 10),
               total_expected_cost |->
                   Ratio(optimal_order_quantity * h * 10 * n
                           + (100 - service_level) * 52 * S * unit_price * 2,
                         2 * 100 * 10 * n)]

\* InventoryOptimization.objects.create(...)
InventoryOptimizationRow(id, r) ==
    [id |-> id,
     medicine |-> r.medicine,
     demand_forecast |-> r.demand_forecast,
     service_level |-> r.service_level,
     lead_time_days |-> r.lead_time_days,
     holding_cost_percentage |-> r.holding_cost_percentage,
     optimal_reorder_point |-> r.optimal_reorder_point,
     optimal_order_quantity |-> r.optimal_order_quantity,
     optimal_maximum_stock |-> r.optimal_maximum_stock,
     safety_stock |-> r.safety_stock,
     expected_holding_cost |-> r.expected_holding_cost,
     expected_stockout_cost |-> r.expected_stockout_cost,
     total_expected_cost |-> r.total_expected_cost]

OptimizeOutcome(forecast_id, service_level, lead_time_days, holding_cost_percentage, raised, error, optimization_id) ==
    [op |-> "optimize_inventory_levels", forecast_id |-> forecast_id,
     service_level |-> service_level, lead_time_days |-> lead_time_days,
     holding_cost_percentage |-> holding_cost_percentage,
     raised |-> raised, error |-> error,
     optimization_id |-> optimization_id]

----------------------------------------------------------------------------
(* optimize_inventory_levels on a persisted forecast *)

\* Point forecasts of an ARIMA model: any sign
DemandInputs == {-5, 0, 10}

\* (service_level, lead_time_days, holding_cost_percentage): the defaults,
\* each parameter varied alone, and two combinations
OptimizeInputs ==
    {<<sl, 7, 20>> : sl \in {95, 10, 50, 0, 100, -5, 150}}
      \cup {<<95, l, 20>> : l \in {14, 0, -7}}
      \cup {<<95, 7, pct>> : pct \in {40, 0, -20}}
      \cup {<<10, 14, 20>>, <<10, 7, -20>>}

\* The forecasts that generate_forecast can have persisted: finite values
\* of either sign, or NaN
ForecastValuesInputs ==
    {[i \in 1..n |-> NaN] : n \in 1..MaxHorizon}
      \cup UNION {{[i \in 1..n |-> Fin(f[i])] : f \in [1..n -> DemandInputs]} :
                     n \in 1..MaxHorizon}

\* A weekly training series of min_data_points observations
TrainingSeries ==
    [i \in 1..min_data_points |-> [date |-> 7 * i - 1, quantity |-> 0]]

PersistedForecast(medicine_id, values) ==
    DemandForecastRow(1, medicine_id, "weekly", Len(values), <<1, 1, 1>>,
                      [mse |-> Fin(0), mae |-> Fin(0), mape |-> Fin(0)],
                      values, ConfInt(values, Len(values)), TrainingSeries)

InitOptimize ==
    /\ orders = <<>>
    /\ medicines = MedicineRows
    /\ \E m \in MedicineIds, values \in ForecastValuesInputs :
          forecasts = <<PersistedForecast(m, values)>>
    /\ optimizations = <<>>
    /\ trends = <<>>
    /\ history = <<>>
    /\ cart_items = <<>>
    /\ requests = <<>>
    /\ actual = <<>>
    /\ predicted = <<>>
    /\ outcome = Idle

\* optimize_inventory_levels raises: nothing is created
OptimizeInventoryLevelsRaises ==
    /\ \E f \in DOMAIN forecasts, in \in OptimizeInputs :
          \E r \in {OptimizeInventoryLevels(
                        forecasts[f], medicines[forecasts[f].medicine].unit_price,
                        in[1], in[2], in[3])} :
              /\ r.raised
              /\ outcome' = OptimizeOutcome(forecasts[f].id, in[1], in[2],
                                            in[3], TRUE, r.error, 0)
    /\ UNCHANGED <<orders, medicines, forecasts, optimizations, trends, actual,
                   predicted, history, cart_items, requests>>

\* optimize_inventory_levels creates and returns the row
OptimizeInventoryLevelsCreated ==
    /\ Len(optimizations) < MaxOptimizations
    /\ \E f \in DOMAIN forecasts, in \in OptimizeInputs :
          \E r \in {OptimizeInventoryLevels(
                        forecasts[f], medicines[forecasts[f].medicine].unit_price,
                        in[1], in[2], in[3])} :
              /\ ~r.raised
              /\ optimizations' = Append(optimizations,
                     InventoryOptimizationRow(Len(optimizations) + 1, r))
              /\ outcome' = OptimizeOutcome(forecasts[f].id, in[1], in[2],
                                            in[3], FALSE, "",
                                            Len(optimizations) + 1)
    /\ UNCHANGED <<orders, medicines, forecasts, trends, actual, predicted, history, cart_items, requests>>

NextOptimize ==
    \/ OptimizeInventoryLevelsRaises
    \/ OptimizeInventoryLevelsCreated

SpecOptimize == InitOptimize /\ [][NextOptimize]_vars

----------------------------------------------------------------------------
(* SupplyChainOptimizer._calculate_priority and generate_reorder_alerts.   *)
(* Rows created by the service have is_active at its default, True.        *)

\* stock_ratio <= num / den, for stock_ratio = current_stock /
\* optimal_reorder_point with a non-zero divisor and den > 0
StockRatioBelow(current_stock, optimal_reorder_point, num, den) ==
    IF optimal_reorder_point > 0
      THEN current_stock * den < num * optimal_reorder_point
      ELSE current_stock * den > num * optimal_reorder_point

StockRatioAtMost(current_stock, optimal_reorder_point, num, den) ==
    IF optimal_reorder_point > 0
      THEN current_stock * den <= num * optimal_reorder_point
      ELSE current_stock * den >= num * optimal_reorder_point

\* _calculate_priority, for optimal_reorder_point # 0: the thresholds are
\* 0.5, 0.75 and 1.0
CalculatePriority(current_stock, optimal_reorder_point) ==
    IF StockRatioAtMost(current_stock, optimal_reorder_point, 1, 2)
      THEN "urgent"
    ELSE IF StockRatioAtMost(current_stock, optimal_reorder_point, 3, 4)
      THEN "high"
    ELSE IF StockRatioAtMost(current_stock, optimal_reorder_point, 1, 1)
      THEN "medium"
    ELSE "low"

\* DemandForecast.objects.filter(medicine=medicine, is_active=True)
\*   .order_by('-created_at').first(): the id of the row, 0 for None
LatestForecast(fc, medicine_id) ==
    LET ids == {i \in DOMAIN fc : fc[i].medicine = medicine_id}
    IN  IF ids = {} THEN 0 ELSE SetMax(ids)

\* InventoryOptimization.objects.filter(demand_forecast=latest_forecast,
\*   is_active=True).first(): the row of lowest primary key, 0 for None
OptimizationOf(opt, forecast_id) ==
    LET ids == {i \in DOMAIN opt : opt[i].demand_forecast = forecast_id}
    IN  IF ids = {} THEN 0 ELSE SetMin(ids)

\* Medicine.objects.filter(current_stock__lte=F('reorder_point'),
\*   is_active=True)
LowStockMedicines(meds) ==
    {m \in DOMAIN meds :
        meds[m].is_active /\ meds[m].current_stock <= meds[m].reorder_point}

\* No alert: the exception raised in the loop body is logged and the loop
\* continues
NoAlert == [skipped |-> TRUE]

Alert(medicine_id, medicine, suggested_quantity, priority) ==
    [skipped |-> FALSE,
     medicine |-> medicine_id,
     current_stock |-> medicine.current_stock,
     reorder_point |-> medicine.reorder_point,
     suggested_quantity |-> suggested_quantity,
     priority |-> priority]

\* The body of the loop of generate_reorder_alerts for one medicine
AlertOf(medicine_id, meds, fc, opt) ==
    LET medicine == meds[medicine_id]
        latest_forecast == LatestForecast(fc, medicine_id)
        optimization == IF latest_forecast = 0 THEN 0
                        ELSE OptimizationOf(opt, latest_forecast)
    IN  IF optimization = 0
          THEN Alert(medicine_id, medicine, medicine.reorder_point * 2,
                     "medium")
        ELSE IF opt[optimization].optimal_reorder_point = 0
          THEN NoAlert
        ELSE Alert(medicine_id, medicine,
                   opt[optimization].optimal_order_quantity,
                   CalculatePriority(medicine.current_stock,
                       opt[optimization].optimal_reorder_point))

\* generate_reorder_alerts, the low stock medicines being iterated in the
\* given order
GenerateReorderAlerts(order, meds, fc, opt) ==
    LET IsAlert(a) == ~a.skipped
    IN  SelectSeq([i \in DOMAIN order |-> AlertOf(order[i], meds, fc, opt)],
                  IsAlert)

\* The orders in which a query without order_by can return the rows of S
Orderings(S) ==
    {f \in [1..Cardinality(S) -> S] :
        \A i, j \in DOMAIN f : i # j => f[i] # f[j]}

----------------------------------------------------------------------------
(* _calculate_priority on bounded stock levels and reorder points *)

PriorityMedicine(current_stock) ==
    [unit_price |-> 10, current_stock |-> current_stock,
     reorder_point |-> MaxStock, is_active |-> TRUE]

InitPriority ==
    /\ orders = <<>>
    /\ \E current_stock \in 0..MaxStock :
          medicines = [m \in {1} |-> PriorityMedicine(current_stock)]
    /\ forecasts = <<>>
    /\ \E optimal_reorder_point \in (-MaxReorderPoint)..MaxReorderPoint :
          optimizations = <<[id |-> 1, medicine |-> 1,
                             optimal_reorder_point |-> optimal_reorder_point]>>
    /\ trends = <<>>
    /\ history = <<>>
    /\ cart_items = <<>>
    /\ requests = <<>>
    /\ actual = <<>>
    /\ predicted = <<>>
    /\ outcome = Idle

\* _calculate_priority(medicine, optimization): the division by a zero
\* optimal_reorder_point raises ZeroDivisionError
CalculatePriorityCall ==
    /\ \E m \in DOMAIN medicines, o \in DOMAIN optimizations :
          outcome' =
            IF optimizations[o].optimal_reorder_point = 0
              THEN [op |-> "_calculate_priority", medicine |-> m,
                    optimization |-> o, raised |-> TRUE,
                    error |-> "ZeroDivisionError", priority |-> ""]
              ELSE [op |-> "_calculate_priority", medicine |-> m,
                    optimization |-> o, raised |-> FALSE, error |-> "",
                    priority |-> CalculatePriority(
                        medicines[m].current_stock,
                        optimizations[o].optimal_reorder_point)]
    /\ UNCHANGED <<orders, medicines, forecasts, optimizations, trends, actual,
                   predicted, history, cart_items, requests>>

NextPriority == CalculatePriorityCall

SpecPriority == InitPriority /\ [][NextPriority]_vars

----------------------------------------------------------------------------
(* generate_forecast as a function of the database and of what the        *)
(* libraries do: lib.fit says whether the model fit raises, lib.fitted     *)
(* gives the in-sample fitted values, lib.res the result of auto_arima and *)
(* lib.value the value forecast for every step.                            *)

GenerateForecast(ord, meds, fc, medicine_id, forecast_period, forecast_horizon, lib) ==
    LET pre == Precheck(ord, meds, medicine_id, forecast_period)
    IN  IF pre.raised
          THEN [raised |-> TRUE, error |-> pre.error, got |-> pre.got]
        ELSE IF lib.fit = "raises"
          THEN [raised |-> TRUE, error |-> "ARIMA fit error", got |-> pre.got]
        ELSE
          LET values == [i \in 1..ForecastSteps(forecast_horizon) |->
                           lib.value]
          IN  [raised |-> FALSE, error |-> "", got |-> pre.got,
               row |-> DemandForecastRow(
                          Len(fc) + 1, medicine_id, forecast_period,
                          forecast_horizon, FindOptimalArimaParams(lib.res),
                          InSampleMetrics(pre.series, lib.fitted), values,
                          ConfInt(values, ConfIntSteps(forecast_horizon)),
                          pre.series)]

\* The outcome of a generate_forecast call
ForecastOutcome(r, medicine_id, forecast_period, forecast_horizon) ==
    IF r.raised
      THEN ForecastFailure(medicine_id, forecast_period, r.error, r.got,
                           min_data_points)
      ELSE ForecastSuccess(r.row, forecast_horizon)

----------------------------------------------------------------------------
(* Reorder alerts after forecast and optimize calls *)

StockMedicine(unit_price, current_stock, reorder_point, is_active) ==
    [unit_price |-> unit_price, current_stock |-> current_stock,
     reorder_point |-> reorder_point, is_active |-> is_active]

\* Medicine 1: out of stock, low stock, stock at the reorder point, stock
\* above it, inactive.  Medicine 2: out of stock, low stock.
StockInputs ==
    {[m \in MedicineIds |-> IF m = 1 THEN a ELSE b] :
        a \in {StockMedicine(10, 0, 50, TRUE), StockMedicine(10, 40, 50, TRUE),
               StockMedicine(10, 50, 50, TRUE), StockMedicine(10, 60, 50, TRUE),
               StockMedicine(10, 0, 50, FALSE)},
        b \in {StockMedicine(4, 0, 50, TRUE), StockMedicine(4, 40, 50, TRUE)}}

\* Two delivered lines 30 weeks apart for each medicine
StockDb ==
    <<Line(1, 0, "delivered", 1), Line(2, 0, "delivered", 1),
      Line(1, 210, "delivered", 1), Line(2, 210, "delivered", 1)>>

\* The model fits and forecasts 0 or 8 units for every step
AlertLibInputs ==
    {[fit |-> "ok", fitted |-> "biased", res |-> <<>>, value |-> Fin(v)] :
        v \in {0, 8}}

InitAlerts ==
    /\ orders = StockDb
    /\ medicines \in StockInputs
    /\ forecasts = <<>>
    /\ optimizations = <<>>
    /\ trends = <<>>
    /\ history = <<>>
    /\ cart_items = <<>>
    /\ requests = <<>>
    /\ actual = <<>>
    /\ predicted = <<>>
    /\ outcome = Idle

\* generate_forecast(medicine_id, 'weekly', MaxHorizon)
AlertsGenerateForecast ==
    /\ Len(forecasts) < MaxRuns
    /\ \E m \in MedicineIds, lib \in AlertLibInputs :
          \E r \in {GenerateForecast(orders, medicines, forecasts, m, "weekly",
                                     MaxHorizon, lib)} :
              /\ forecasts' = IF r.raised THEN forecasts
                              ELSE Append(forecasts, r.row)
              /\ outcome' = ForecastOutcome(r, m, "weekly", MaxHorizon)
    /\ UNCHANGED <<orders, medicines, optimizations, trends, actual, predicted, history, cart_items, requests>>

\* optimize_inventory_levels(forecast) with the default parameters
AlertsOptimizeInventoryLevels ==
    /\ Len(optimizations) < MaxOptimizations
    /\ \E f \in DOMAIN forecasts :
          \E r \in {OptimizeInventoryLevels(
                        forecasts[f], medicines[forecasts[f].medicine].unit_price,
                        DefaultServiceLevel, DefaultLeadTimeDays,
                        DefaultHoldingCostPercentage)} :
              /\ optimizations' =
                    IF r.raised THEN optimizations
                    ELSE Append(optimizations,
                           InventoryOptimizationRow(Len(optimizations) + 1, r))
              /\ outcome' = OptimizeOutcome(
                                forecasts[f].id, DefaultServiceLevel,
                                DefaultLeadTimeDays,
                                DefaultHoldingCostPercentage, r.raised, r.error,
                                IF r.raised THEN 0 ELSE Len(optimizations) + 1)
    /\ UNCHANGED <<orders, medicines, forecasts, trends, actual, predicted, history, cart_items, requests>>

\* generate_reorder_alerts()
GenerateReorderAlertsCall ==
    /\ \E order \in Orderings(LowStockMedicines(medicines)) :
          outcome' = [op |-> "generate_reorder_alerts",
                      alerts |-> GenerateReorderAlerts(order, medicines,
                                                       forecasts, optimizations)]
    /\ UNCHANGED <<orders, medicines, forecasts, optimizations, trends, actual,
                   predicted, history, cart_items, requests>>

NextAlerts ==
    \/ AlertsGenerateForecast
    \/ AlertsOptimizeInventoryLevels
    \/ GenerateReorderAlertsCall

SpecAlerts == InitAlerts /\ [][NextAlerts]_vars

----------------------------------------------------------------------------
(* update_sales_trends and _calculate_trend_indicators.  A SalesTrend row  *)
(* is created with growth_rate and trend_direction None.                   *)

SalesTrendRow(medicine_id, period_type, row, unit_price, growth_rate, trend_direction) ==
    [medicine |-> medicine_id,
     period_type |-> period_type,
     period_date |-> row.date,
     quantity_sold |-> row.quantity,
     revenue |-> row.quantity * unit_price,
     average_price |-> unit_price,
     growth_rate |-> growth_rate,
     trend_direction |-> trend_direction]

\* The rows of the key (medicine, period_type, period_date)
TrendsOfKey(tr, medicine_id, period_type, period_date) ==
    {i \in DOMAIN tr : /\ tr[i].medicine = medicine_id
                       /\ tr[i].period_type = period_type
                       /\ tr[i].period_date = period_date}

\* SalesTrend.objects.get_or_create(...), then the update of the row found
UpsertTrendAlwaysCreates(tr, medicine_id, period_type, row, unit_price) ==
    Append(tr, SalesTrendRow(medicine_id, period_type, row, unit_price,
                             None, None))

UpsertTrend(tr, medicine_id, period_type, row, unit_price) ==
    LET found == TrendsOfKey(tr, medicine_id, period_type, row.date)
    IN  IF found = {}
          THEN Append(tr, SalesTrendRow(medicine_id, period_type, row,
                                        unit_price, None, None))
          ELSE LET i == SetMin(found)
               IN  [tr EXCEPT ![i] =
                      SalesTrendRow(medicine_id, period_type, row, unit_price,
                                    tr[i].growth_rate, tr[i].trend_direction)]

\* for _, row in sales_data.iterrows(): the rows from the i-th on
RECURSIVE UpsertTrends(_, _, _, _, _, _)
UpsertTrends(tr, medicine_id, period_type, series, i, unit_price) ==
    IF i > Len(series) THEN tr
    ELSE UpsertTrends(
             UpsertTrend(tr, medicine_id, period_type, series[i], unit_price),
             medicine_id, period_type, series, i + 1, unit_price)

\* growth_rate = ((curr_quantity - prev_quantity) / prev_quantity) * 100
GrowthRate(prev_quantity, curr_quantity) ==
    Ratio(100 * (curr_quantity - prev_quantity), prev_quantity)

\* growth_rate > 5: up; growth_rate < -5: down; else stable
TrendDirectionInclusive(growth_rate) ==
    IF growth_rate.num >= 5 * growth_rate.den THEN "up"
    ELSE IF growth_rate.num <= -5 * growth_rate.den THEN "down"
    ELSE "stable"

TrendDirection(growth_rate) ==
    IF growth_rate.num > 5 * growth_rate.den THEN "up"
    ELSE IF growth_rate.num < -5 * growth_rate.den THEN "down"
    ELSE "stable"

\* _calculate_trend_indicators: the rows of the medicine and period type
\* in period_date order; a row whose predecessor has a positive quantity
\* gets its growth rate and direction, every other row is left as it is
CalculateTrendIndicators(tr, medicine_id, period_type) ==
    LET mine == {i \in DOMAIN tr : /\ tr[i].medicine = medicine_id
                                   /\ tr[i].period_type = period_type}
        Before(i) == {j \in mine : tr[j].period_date < tr[i].period_date}
        Prev(i) == CHOOSE j \in Before(i) :
                      \A k \in Before(i) : tr[k].period_date <= tr[j].period_date
    IN  IF Cardinality(mine) < 2 THEN tr
        ELSE [i \in DOMAIN tr |->
                IF i \in mine /\ Before(i) # {}
                     /\ tr[Prev(i)].quantity_sold > 0
                  THEN LET growth_rate ==
                             GrowthRate(tr[Prev(i)].quantity_sold,
                                        tr[i].quantity_sold)
                       IN  [tr[i] EXCEPT
                              !.growth_rate = growth_rate,
                              !.trend_direction = TrendDirection(growth_rate)]
                  ELSE tr[i]]

\* update_sales_trends(medicine_id, period_type)
UpdateSalesTrends(ord, meds, tr, medicine_id, period_type) ==
    LET sd == PrepareSalesData(ord, medicine_id, period_type, None, None)
    IN  IF medicine_id \notin DOMAIN meds
          THEN [raised |-> TRUE, error |-> "Medicine.DoesNotExist",
                trends |-> tr]
        ELSE IF sd.raised
          THEN [raised |-> TRUE, error |-> sd.error, trends |-> tr]
        ELSE [raised |-> FALSE, error |-> "",
              trends |-> Stored(CalculateTrendIndicators(
                            UpsertTrends(tr, medicine_id, period_type,
                                         sd.series, 1,
                                         meds[medicine_id].unit_price),
                            medicine_id, period_type))]

----------------------------------------------------------------------------
(* Sales trends on an order history whose orders are confirmed and         *)
(* cancelled between the calls                                              *)

\* Three consecutive days; a pending and a confirmed order of two
\* medicines; two orders two weeks apart; four days with growth rates of
\* exactly 5 and -5 percent
TrendDbInputs ==
    { <<Line(1, 0, "delivered", 2), Line(1, 1, "confirmed", 1),
        Line(1, 2, "delivered", 3)>>,
      <<Line(1, 0, "pending", 1), Line(1, 1, "delivered", 2),
        Line(2, 1, "confirmed", 1)>>,
      <<Line(1, 0, "delivered", 1), Line(1, 14, "confirmed", 2)>>,
      <<Line(1, 0, "delivered", 20), Line(1, 1, "delivered", 21),
        Line(1, 2, "confirmed", 20), Line(1, 3, "delivered", 19)>> }

InitTrends ==
    /\ orders \in TrendDbInputs
    /\ InitCommon

\* OrderCancelView: a pending or confirmed order is cancelled
CancelOrder ==
    /\ \E i \in DOMAIN orders :
          /\ orders[i].status \in {"pending", "confirmed"}
          /\ orders' = [orders EXCEPT ![i].status = "cancelled"]
    /\ outcome' = [op |-> "cancel_order"]
    /\ UNCHANGED <<medicines, forecasts, optimizations, trends, actual, predicted, history, cart_items, requests>>

\* OrderStatusUpdateView: a pending order is confirmed
ConfirmOrder ==
    /\ \E i \in DOMAIN orders :
          /\ orders[i].status = "pending"
          /\ orders' = [orders EXCEPT ![i].status = "confirmed"]
    /\ outcome' = [op |-> "confirm_order"]
    /\ UNCHANGED <<medicines, forecasts, optimizations, trends, actual, predicted, history, cart_items, requests>>

UpdateSalesTrendsCall ==
    /\ \E m \in MedicineIdInputs, p \in {"daily", "weekly"} :
          \E r \in {UpdateSalesTrends(orders, medicines, trends, m, p)} :
              /\ trends' = r.trends
              /\ outcome' = [op |-> "update_sales_trends", medicine_id |-> m,
                             period_type |-> p, raised |-> r.raised,
                             error |-> r.error]
    /\ UNCHANGED <<orders, medicines, forecasts, optimizations, actual,
                   predicted, history, cart_items, requests>>

NextTrends ==
    \/ CancelOrder
    \/ ConfirmOrder
    \/ UpdateSalesTrendsCall

SpecTrends == InitTrends /\ [][NextTrends]_vars

----------------------------------------------------------------------------
(* generate_bulk_forecasts and SupplyChainOptimizer.optimize_supply_chain. *)
(* libs[i] says what the libraries do for the i-th medicine of the list.   *)

\* DemandForecast.objects.create(...): the row is added, the earlier rows
\* stay as they are
CreateDemandForecastReplacing(fc, row) ==
    Append([i \in DOMAIN fc |->
              IF fc[i].medicine = row.medicine
                THEN [fc[i] EXCEPT !.forecasted_demand = <<>>]
                ELSE fc[i]],
           row)

CreateDemandForecast(fc, row) == Append(fc, row)

\* The loop of generate_bulk_forecasts from the i-th medicine on: an
\* exception of generate_forecast is logged and the loop continues
RECURSIVE BulkForecastsFrom(_, _, _, _, _, _, _, _, _)
BulkForecastsFrom(ord, meds, fc, result, medicine_ids, libs, i, forecast_period, forecast_horizon) ==
    IF i > Len(medicine_ids) THEN [forecasts |-> fc, result |-> result]
    ELSE LET r == GenerateForecast(ord, meds, fc, medicine_ids[i],
                                   forecast_period, forecast_horizon, libs[i])
         IN  IF r.raised
               THEN BulkForecastsFrom(ord, meds, fc, result, medicine_ids,
                                      libs, i + 1, forecast_period,
                                      forecast_horizon)
               ELSE BulkForecastsFrom(ord, meds,
                                      CreateDemandForecast(fc, r.row),
                                      Append(result, r.row.id), medicine_ids,
                                      libs, i + 1, forecast_period,
                                      forecast_horizon)

\* generate_bulk_forecasts(medicine_ids, forecast_period, forecast_horizon):
\* the rows persisted and the ids of the rows returned
GenerateBulkForecasts(ord, meds, fc, medicine_ids, libs, forecast_period, forecast_horizon) ==
    BulkForecastsFrom(ord, meds, fc, <<>>, medicine_ids, libs, 1,
                      forecast_period, forecast_horizon)

\* optimizations[medicine_id] = optimization, on a dict kept as the
\* sequence of its items in insertion order
DictSet(d, key, value) ==
    IF \E k \in DOMAIN d : d[k][1] = key
      THEN [k \in DOMAIN d |-> IF d[k][1] = key THEN <<key, value>> ELSE d[k]]
      ELSE Append(d, <<key, value>>)

\* The loop of optimize_supply_chain from the i-th medicine on: the
\* forecast with the default period and horizon, then the optimization with
\* the default parameters; an exception of either is logged and the loop
\* continues
RECURSIVE SupplyChainFrom(_, _, _, _, _, _, _, _)
SupplyChainFrom(ord, meds, fc, opt, result, medicine_ids, libs, i) ==
    IF i > Len(medicine_ids)
      THEN [forecasts |-> fc, optimizations |-> opt, result |-> result]
    ELSE LET r == GenerateForecast(ord, meds, fc, medicine_ids[i], "weekly",
                                   DefaultForecastHorizon, libs[i])
         IN  IF r.raised
               THEN SupplyChainFrom(ord, meds, fc, opt, result, medicine_ids,
                                    libs, i + 1)
               ELSE
                 LET o == OptimizeInventoryLevels(
                              r.row, meds[medicine_ids[i]].unit_price,
                              DefaultServiceLevel, DefaultLeadTimeDays,
                              DefaultHoldingCostPercentage)
                     fc1 == CreateDemandForecast(fc, r.row)
                 IN  IF o.raised
                       THEN SupplyChainFrom(ord, meds, fc1, opt, result,
                                            medicine_ids, libs, i + 1)
                       ELSE SupplyChainFrom(
                                ord, meds, fc1,
                                Append(opt, InventoryOptimizationRow(
                                                Len(opt) + 1, o)),
                                DictSet(result, medicine_ids[i], Len(opt) + 1),
                                medicine_ids, libs, i + 1)

\* optimize_supply_chain(medicine_ids)
OptimizeSupplyChain(ord, meds, fc, opt, medicine_ids, libs) ==
    SupplyChainFrom(ord, meds, fc, opt, <<>>, medicine_ids, libs, 1)

----------------------------------------------------------------------------
(* The operations of the analytics service on one database *)

\* The model fits and forecasts 8 units or NaN for every step, or the fit
\* raises
ServiceLibInputs ==
    {[fit |-> "ok", fitted |-> "biased", res |-> <<>>, value |-> Fin(8)],
     [fit |-> "ok", fitted |-> "biased", res |-> <<>>, value |-> NaN],
     [fit |-> "raises", fitted |-> "biased", res |-> <<>>, value |-> NaN]}

\* The lists of medicine ids passed to the bulk operations: empty, one
\* medicine, two medicines in both orders, a medicine twice, and the unknown
\* medicine 3 before and after a known one
MedicineIdLists ==
    {<<>>, <<1>>, <<3>>, <<1, 2>>, <<2, 1>>, <<1, 1>>, <<1, 3>>, <<3, 1>>}

ServiceMedicines ==
    [m \in MedicineIds |->
        IF m = 1 THEN StockMedicine(10, 0, 50, TRUE)
        ELSE StockMedicine(4, 40, 50, TRUE)]

InitService ==
    /\ orders = StockDb
    /\ medicines = ServiceMedicines
    /\ forecasts = <<>>
    /\ optimizations = <<>>
    /\ trends = <<>>
    /\ history = <<>>
    /\ cart_items = <<>>
    /\ requests = <<>>
    /\ actual = <<>>
    /\ predicted = <<>>
    /\ outcome = Idle

\* generate_forecast(medicine_id, 'weekly', MaxHorizon)
ServiceGenerateForecast ==
    /\ Len(forecasts) < MaxRuns
    /\ \E m \in MedicineIdInputs, lib \in ServiceLibInputs :
          \E r \in {GenerateForecast(orders, medicines, forecasts, m, "weekly",
                                     MaxHorizon, lib)} :
              /\ forecasts' = IF r.raised THEN forecasts
                              ELSE CreateDemandForecast(forecasts, r.row)
              /\ outcome' = ForecastOutcome(r, m, "weekly", MaxHorizon)
    /\ UNCHANGED <<orders, medicines, optimizations, trends, actual, predicted, history, cart_items, requests>>

\* generate_bulk_forecasts(medicine_ids, 'weekly', MaxHorizon)
GenerateBulkForecastsCall ==
    /\ \E medicine_ids \in MedicineIdLists :
          /\ Len(forecasts) + Len(medicine_ids) <= MaxRuns
          /\ \E libs \in [DOMAIN medicine_ids -> ServiceLibInputs] :
               \E r \in {GenerateBulkForecasts(orders, medicines, forecasts,
                              medicine_ids, libs, "weekly", MaxHorizon)} :
                   /\ forecasts' = r.forecasts
                   /\ outcome' = [op |-> "generate_bulk_forecasts",
                                  medicine_ids |-> medicine_ids,
                                  libs |-> libs, raised |-> FALSE,
                                  result |-> r.result]
    /\ UNCHANGED <<orders, medicines, optimizations, trends, actual, predicted, history, cart_items, requests>>

\* optimize_supply_chain(medicine_ids)
OptimizeSupplyChainCall ==
    /\ \E medicine_ids \in MedicineIdLists :
          /\ Len(forecasts) + Len(medicine_ids) <= MaxRuns
          /\ Len(optimizations) + Len(medicine_ids) <= MaxRuns
          /\ \E libs \in [DOMAIN medicine_ids -> ServiceLibInputs] :
               \E r \in {OptimizeSupplyChain(orders, medicines, forecasts,
                              optimizations, medicine_ids, libs)} :
                   /\ forecasts' = r.forecasts
                   /\ optimizations' = r.optimizations
                   /\ outcome' = [op |-> "optimize_supply_chain",
                                  medicine_ids |-> medicine_ids,
                                  libs |-> libs, raised |-> FALSE,
                                  result |-> r.result]
    /\ UNCHANGED <<orders, medicines, trends, actual, predicted, history, cart_items, requests>>

\* optimize_inventory_levels(forecast) with the default parameters
ServiceOptimizeInventoryLevels ==
    /\ Len(optimizations) < MaxOptimizations
    /\ \E f \in DOMAIN forecasts :
          \E r \in {OptimizeInventoryLevels(
                        forecasts[f], medicines[forecasts[f].medicine].unit_price,
                        DefaultServiceLevel, DefaultLeadTimeDays,
                        DefaultHoldingCostPercentage)} :
              /\ optimizations' =
                    IF r.raised THEN optimizations
                    ELSE Append(optimizations,
                           InventoryOptimizationRow(Len(optimizations) + 1, r))
              /\ outcome' = OptimizeOutcome(
                                forecasts[f].id, DefaultServiceLevel,
                                DefaultLeadTimeDays,
                                DefaultHoldingCostPercentage, r.raised, r.error,
                                IF r.raised THEN 0 ELSE Len(optimizations) + 1)
    /\ UNCHANGED <<orders, medicines, forecasts, trends, actual, predicted, history, cart_items, requests>>

\* update_sales_trends(medicine_id, 'monthly')
ServiceUpdateSalesTrends ==
    /\ \E m \in MedicineIdInputs :
          \E r \in {UpdateSalesTrends(orders, medicines, trends, m, "monthly")} :
              /\ trends' = r.trends
              /\ outcome' = [op |-> "update_sales_trends", medicine_id |-> m,
                             period_type |-> "monthly", raised |-> r.raised,
                             error |-> r.error]
    /\ UNCHANGED <<orders, medicines, forecasts, optimizations, actual,
                   predicted, history, cart_items, requests>>

NextBulk ==
    \/ GenerateBulkForecastsCall
    \/ OptimizeSupplyChainCall

SpecBulk == InitService /\ [][NextBulk]_vars

NextService ==
    \/ ServiceGenerateForecast
    \/ GenerateBulkForecastsCall
    \/ ServiceOptimizeInventoryLevels
    \/ ServiceUpdateSalesTrends
    \/ GenerateReorderAlertsCall

SpecService == InitService /\ [][NextService]_vars

----------------------------------------------------------------------------
(* optimize_inventory_levels called several times, on a daily and a weekly *)
(* forecast with the same point values                                     *)

\* holding_cost_percentage: the default, a small and a large increase of
\* it, and two neighbouring values
HoldingCostInputs == {20, 21, 40, 99, 100}

\* Positive point forecasts
PositiveDemandInputs == {1, 10}

PositiveForecastValuesInputs ==
    UNION {{[i \in 1..n |-> Fin(f[i])] : f \in [1..n -> PositiveDemandInputs]} :
              n \in 1..MaxHorizon}

\* A forecast row of the given granularity
PersistedForecastRow(id, medicine_id, forecast_period, values) ==
    DemandForecastRow(id, medicine_id, forecast_period, Len(values),
                      <<1, 1, 1>>,
                      [mse |-> Fin(0), mae |-> Fin(0), mape |-> Fin(0)],
                      values, ConfInt(values, Len(values)), TrainingSeries)

InitPolicy ==
    /\ orders = <<>>
    /\ medicines = MedicineRows
    /\ \E m \in MedicineIds, values \in PositiveForecastValuesInputs :
          forecasts = <<PersistedForecastRow(1, m, "daily", values),
                        PersistedForecastRow(2, m, "weekly", values)>>
    /\ optimizations = <<>>
    /\ trends = <<>>
    /\ history = <<>>
    /\ cart_items = <<>>
    /\ requests = <<>>
    /\ actual = <<>>
    /\ predicted = <<>>
    /\ outcome = Idle

\* optimize_inventory_levels(forecast, holding_cost_percentage=pct), with
\* the default service level and lead time
PolicyOptimizeInventoryLevels ==
    /\ Len(optimizations) < MaxRuns
    /\ \E f \in DOMAIN forecasts, pct \in HoldingCostInputs :
          \E r \in {OptimizeInventoryLevels(
                        forecasts[f], medicines[forecasts[f].medicine].unit_price,
                        DefaultServiceLevel, DefaultLeadTimeDays, pct)} :
              /\ optimizations' =
                    IF r.raised THEN optimizations
                    ELSE Append(optimizations,
                           InventoryOptimizationRow(Len(optimizations) + 1, r))
              /\ outcome' = OptimizeOutcome(
                                forecasts[f].id, DefaultServiceLevel,
                                DefaultLeadTimeDays, pct, r.raised, r.error,
                                IF r.raised THEN 0 ELSE Len(optimizations) + 1)
    /\ UNCHANGED <<orders, medicines, forecasts, trends, actual, predicted, history, cart_items, requests>>

NextPolicy == PolicyOptimizeInventoryLevels

SpecPolicy == InitPolicy /\ [][NextPolicy]_vars

----------------------------------------------------------------------------
(* Two update_sales_trends calls in flight at the same time.  Each query   *)
(* or save of a call is one step; the code takes no lock and opens no      *)
(* transaction, so the steps of the two calls interleave, and orders are   *)
(* confirmed and cancelled in between.                                     *)

\* Upserts and indicators of one call on the rows tr, for the series the
\* call has read
StoreTrends(tr, meds, medicine_id, period_type, series) ==
    Stored(CalculateTrendIndicators(
               UpsertTrends(tr, medicine_id, period_type, series, 1,
                            meds[medicine_id].unit_price),
               medicine_id, period_type))

\* A call that has not yet read anything
TrendsRequest(medicine_id, period_type) ==
    [op |-> "update_sales_trends", pc |-> "start", medicine_id |-> medicine_id,
     period_type |-> period_type, series |-> <<>>, i |-> 0, pk |-> 0,
     trend |-> None, loaded |-> <<>>]

\* Two orders on the first day, one of them still confirmed, and an order
\* on the second day; the same with a pending order on the second day
ConcurrentTrendDbInputs ==
    { <<Line(1, 0, "delivered", 2), Line(1, 0, "confirmed", 1),
        Line(1, 1, "delivered", 1)>>,
      <<Line(1, 0, "delivered", 2), Line(1, 1, "delivered", 1),
        Line(1, 1, "pending", 3)>> }

InitConcurrentTrends ==
    /\ orders \in ConcurrentTrendDbInputs
    /\ medicines = MedicineRows
    /\ forecasts = <<>>
    /\ optimizations = <<>>
    /\ trends = <<>>
    /\ history = <<>>
    /\ cart_items = <<>>
    /\ actual = <<>>
    /\ predicted = <<>>
    /\ \E p \in {"daily", "weekly"} :
          requests = <<TrendsRequest(1, p), TrendsRequest(1, p)>>
    /\ outcome = Idle

\* The step of a call that follows the upsert of the i-th period
AfterUpsert(r) ==
    IF r.i < Len(r.series)
      THEN [r EXCEPT !.pc = "get_or_create", !.i = r.i + 1, !.pk = 0,
                     !.trend = None]
      ELSE [r EXCEPT !.pc = "load", !.i = 0, !.pk = 0, !.trend = None]

\* Medicine.objects.get and prepare_sales_data: the call reads the orders
TrendsReadSalesData ==
    \E k \in DOMAIN requests :
        /\ requests[k].pc = "start"
        /\ LET r == requests[k]
               sd == PrepareSalesData(orders, r.medicine_id, r.period_type,
                                      None, None)
           IN  requests' =
                  [requests EXCEPT ![k] =
                      IF r.medicine_id \notin DOMAIN medicines \/ sd.raised
                        THEN [r EXCEPT !.pc = "raised"]
                      ELSE IF Len(sd.series) = 0
                        THEN [r EXCEPT !.pc = "load"]
                      ELSE [r EXCEPT !.pc = "get_or_create",
                                     !.series = sd.series, !.i = 1]]
        /\ UNCHANGED <<orders, medicines, forecasts, optimizations, trends, actual,
                       predicted, history, cart_items, outcome>>

\* SalesTrend.objects.get_or_create for the i-th period (one step: the
\* database keeps one row per key): the row is created with the defaults,
\* or the row found is kept by the call for its save
TrendsGetOrCreate ==
    \E k \in DOMAIN requests :
        /\ requests[k].pc = "get_or_create"
        /\ LET r == requests[k]
               row == r.series[r.i]
               found == TrendsOfKey(trends, r.medicine_id, r.period_type, row.date)
           IN  IF found = {}
                 THEN /\ trends' = Append(trends,
                             SalesTrendRow(r.medicine_id, r.period_type, row,
                                           medicines[r.medicine_id].unit_price,
                                           None, None))
                      /\ requests' = [requests EXCEPT ![k] = AfterUpsert(r)]
                 ELSE /\ trends' = trends
                      /\ requests' =
                            [requests EXCEPT ![k] =
                                [r EXCEPT !.pc = "save", !.pk = SetMin(found),
                                          !.trend = trends[SetMin(found)]]]
        /\ UNCHANGED <<orders, medicines, forecasts, optimizations, actual,
                       predicted, history, cart_items, outcome>>

\* trend.save() of the row found: every field of the row is written, the
\* quantity, revenue and price from the series of the call and the others
\* as the call has read them
TrendsSave ==
    \E k \in DOMAIN requests :
        /\ requests[k].pc = "save"
        /\ LET r == requests[k]
           IN  /\ trends' =
                    [trends EXCEPT ![r.pk] =
                        SalesTrendRow(r.medicine_id, r.period_type, r.series[r.i],
                                      medicines[r.medicine_id].unit_price,
                                      r.trend.growth_rate, r.trend.trend_direction)]
               /\ requests' = [requests EXCEPT ![k] = AfterUpsert(r)]
        /\ UNCHANGED <<orders, medicines, forecasts, optimizations, actual,
                       predicted, history, cart_items, outcome>>

\* SalesTrend.objects.filter(...).order_by('period_date'), evaluated once
\* by len(trends): the rows with their primary keys
LoadedTrends(tr, medicine_id, period_type) ==
    LET mine == {i \in DOMAIN tr : /\ tr[i].medicine = medicine_id
                                   /\ tr[i].period_type = period_type}
        dates == SortedSeq({tr[i].period_date : i \in mine})
    IN  [n \in DOMAIN dates |->
            LET pk == SetMin({i \in mine : tr[i].period_date = dates[n]})
            IN  [pk |-> pk, trend |-> tr[pk]]]

\* _calculate_trend_indicators reads the rows; fewer than two: it returns
TrendsLoad ==
    \E k \in DOMAIN requests :
        /\ requests[k].pc = "load"
        /\ LET r == requests[k]
               loaded == LoadedTrends(trends, r.medicine_id, r.period_type)
           IN  requests' =
                  [requests EXCEPT ![k] =
                      IF Len(loaded) < 2 THEN [r EXCEPT !.pc = "done"]
                      ELSE [r EXCEPT !.pc = "indicator", !.i = 2,
                                     !.loaded = loaded]]
        /\ UNCHANGED <<orders, medicines, forecasts, optimizations, trends, actual,
                       predicted, history, cart_items, outcome>>

\* One turn of the loop of _calculate_trend_indicators: when the previous
\* row read has a positive quantity the row is saved, every field as read
\* except the growth rate and the direction
TrendsIndicator ==
    \E k \in DOMAIN requests :
        /\ requests[k].pc = "indicator"
        /\ LET r == requests[k]
               prev_quantity == r.loaded[r.i - 1].trend.quantity_sold
               curr == r.loaded[r.i]
               growth_rate == GrowthRate(prev_quantity, curr.trend.quantity_sold)
               next == IF r.i < Len(r.loaded) THEN [r EXCEPT !.i = r.i + 1]
                       ELSE [r EXCEPT !.pc = "done"]
           IN  /\ trends' =
                    IF prev_quantity > 0
                      THEN [trends EXCEPT ![curr.pk] =
                              [curr.trend EXCEPT
                                  !.growth_rate = growth_rate,
                                  !.trend_direction = TrendDirection(growth_rate)]]
                      ELSE trends
               /\ requests' = [requests EXCEPT ![k] = next]
        /\ UNCHANGED <<orders, medicines, forecasts, optimizations, actual,
                       predicted, history, cart_items, outcome>>

\* An order is confirmed or cancelled while the calls are in flight
OrderChanges ==
    /\ \E i \in DOMAIN orders :
          \/ /\ orders[i].status \in {"pending", "confirmed"}
             /\ orders' = [orders EXCEPT ![i].status = "cancelled"]
          \/ /\ orders[i].status = "pending"
             /\ orders' = [orders EXCEPT ![i].status = "confirmed"]
    /\ UNCHANGED <<medicines, forecasts, optimizations, trends, actual,
                   predicted, history, cart_items, requests, outcome>>

NextConcurrentTrends ==
    \/ TrendsReadSalesData
    \/ TrendsGetOrCreate
    \/ TrendsSave
    \/ TrendsLoad
    \/ TrendsIndicator
    \/ OrderChanges

SpecConcurrentTrends == InitConcurrentTrends /\ [][NextConcurrentTrends]_vars

----------------------------------------------------------------------------
(* find_optimal_arima_params on every result of the stepwise search *)

\* What auto_arima(data, start_p=0, start_q=0, max_p=5, max_q=5, ...) can
\* do: raise (<<>>), or return a model whose order has p and q within the
\* bounds passed and d within the library's 0..2
AutoArimaResults ==
    {<<>>} \cup {<<p, d, q>> : p \in 0..max_p, d \in 0..2, q \in 0..max_q}

InitSelector ==
    /\ orders = <<>>
    /\ InitCommon

\* find_optimal_arima_params(data)
FindOptimalArimaParamsCall ==
    /\ \E res \in AutoArimaResults :
          outcome' = [op |-> "find_optimal_arima_params",
                      auto_arima |-> res, raised |-> FALSE,
                      order |-> FindOptimalArimaParams(res)]
    /\ UNCHANGED <<orders, medicines, forecasts, optimizations, trends, actual,
                   predicted, history, cart_items, requests>>

NextSelector == FindOptimalArimaParamsCall

SpecSelector == InitSelector /\ [][NextSelector]_vars

----------------------------------------------------------------------------
(* OrderStatusUpdateView and OrderCancelView.  In this part orders holds   *)
(* the Order rows.  Users are given by their role.                         *)

PaymentStatuses == {"pending", "paid"}

Roles == {"admin", "pharmacist_admin", "sales_rep"}

OrderRow(id, status, payment_status) ==
    [id |-> id, status |-> status, payment_status |-> payment_status,
     confirmed_at |-> None, shipped_at |-> None, delivered_at |-> None]

\* OrderStatusHistory.objects.create(...)
OrderStatusHistoryRow(order, old_status, new_status, old_payment_status, new_payment_status) ==
    [order |-> order, old_status |-> old_status, new_status |-> new_status,
     old_payment_status |-> old_payment_status,
     new_payment_status |-> new_payment_status]

\* self.object when form_valid is called: the view binds the form to
\* instance=self.object, and the validation of a model form writes the
\* submitted values of its fields into that instance
BoundObject(stored, status, payment_status) ==
    [stored EXCEPT !.status = status, !.payment_status = payment_status]

\* The timestamps set after the save; a timestamp is None or <<day>>
WithTimestamps(object) ==
    IF object.status = "confirmed" /\ object.confirmed_at = None
      THEN [object EXCEPT !.confirmed_at = <<Now>>]
    ELSE IF object.status = "shipped" /\ object.shipped_at = None
      THEN [object EXCEPT !.shipped_at = <<Now>>]
    ELSE IF object.status = "delivered" /\ object.delivered_at = None
      THEN [object EXCEPT !.delivered_at = <<Now>>]
    ELSE object

\* OrderStatusUpdateView.form_valid on the stored order, for the submitted
\* status and payment status; is_available is what
\* check_stock_availability would report.  The row saved and the history
\* entries created.
OrderStatusUpdateFormValid(stored, status, payment_status, is_available) ==
    LET object == BoundObject(stored, status, payment_status)
        old_status == object.status
        old_payment_status == object.payment_status
    IN  IF old_status = "pending" /\ status = "confirmed" /\ ~is_available
          THEN [response |-> "form_invalid", order |-> stored,
                entries |-> <<>>]
          ELSE [response |-> "redirect", order |-> WithTimestamps(object),
                entries |->
                    IF old_status # object.status
                         \/ old_payment_status # object.payment_status
                      THEN <<OrderStatusHistoryRow(
                                 stored.id, old_status, object.status,
                                 old_payment_status, object.payment_status)>>
                      ELSE <<>>]

\* One pending order; one confirmed order
OrderInputs ==
    { <<OrderRow(1, "pending", "pending")>>,
      <<[OrderRow(1, "confirmed", "paid") EXCEPT !.confirmed_at = <<Now>>]>> }

InitOrderStatus ==
    /\ orders \in OrderInputs
    /\ InitCommon

\* POST to OrderStatusUpdateView
OrderStatusUpdateViewPost ==
    /\ \E k \in DOMAIN orders, role \in Roles, status \in Statuses,
          payment_status \in PaymentStatuses, is_available \in BOOLEAN :
          \E r \in {IF role \in {"pharmacist_admin", "admin"}
                      THEN OrderStatusUpdateFormValid(
                               orders[k], status, payment_status, is_available)
                      ELSE [response |-> "forbidden", order |-> orders[k],
                            entries |-> <<>>]} :
              /\ orders' = [orders EXCEPT ![k] = r.order]
              /\ history' = history \o r.entries
              /\ outcome' = [op |-> "order_status_update", order |-> k,
                             role |-> role, status |-> status,
                             payment_status |-> payment_status,
                             is_available |-> is_available,
                             response |-> r.response]
    /\ UNCHANGED <<medicines, forecasts, optimizations, trends, actual,
                   predicted, cart_items, requests>>

\* POST to OrderCancelView: the queryset holds the pending and confirmed
\* orders
OrderCancelViewPost ==
    /\ \E k \in DOMAIN orders :
          /\ orders[k].status \in {"pending", "confirmed"}
          /\ orders' = [orders EXCEPT ![k].status = "cancelled"]
          /\ outcome' = [op |-> "order_cancel", order |-> k,
                         response |-> "redirect"]
    /\ UNCHANGED <<medicines, forecasts, optimizations, trends, actual,
                   predicted, history, cart_items, requests>>

NextOrderStatus ==
    \/ OrderStatusUpdateViewPost
    \/ OrderCancelViewPost

SpecOrderStatus == InitOrderStatus /\ [][NextOrderStatus]_vars

----------------------------------------------------------------------------
(* OrderCreateView.  In this part orders holds the Order rows with their   *)
(* OrderItem rows, medicines carry unit_price and current_stock, and       *)
(* cart_items holds the CartItem rows of the cart of the sales rep.        *)
(* Amounts of money are in hundredths.  A slot of the form is              *)
(* [medicine, quantity]; 0 stands for a field left empty.                  *)

NumSlots == 5

Slot(medicine, quantity) == [medicine |-> medicine, quantity |-> quantity]

EmptySlot == Slot(0, 0)

\* The filled slots followed by empty ones
FormSlots(filled) ==
    [i \in 1..NumSlots |-> IF i <= Len(filled) THEN filled[i] ELSE EmptySlot]

CreateMedicines ==
    << [unit_price |-> 10, current_stock |-> 3],
       [unit_price |-> 4, current_stock |-> 1] >>

\* The forms posted: one or two filled slots, a form with a gap, a form
\* with all five slots filled, an empty form, a medicine without quantity
\* and a quantity without medicine
SlotInputs ==
    LET Filled == {Slot(m, q) : m \in 1..Len(CreateMedicines), q \in 1..2}
    IN  {FormSlots(<<a>>) : a \in Filled}
          \cup {FormSlots(<<a, b>>) : a \in Filled, b \in Filled}
          \cup {FormSlots(<<EmptySlot, Slot(1, 1), EmptySlot, Slot(2, 1)>>),
                [i \in 1..NumSlots |-> Slot(1, 1)],
                FormSlots(<<>>),
                FormSlots(<<Slot(1, 0)>>),
                FormSlots(<<Slot(0, 2)>>)}

DeliveryMethods == {"delivery", "pickup"}

\* OrderWithItemsForm.clean: TRUE when it raises no ValidationError
RECURSIVE CleanFrom(_, _, _)
CleanFrom(slots, i, selected) ==
    IF i > NumSlots THEN selected > 0
    ELSE IF slots[i].medicine # 0 /\ slots[i].quantity # 0
      THEN CleanFrom(slots, i + 1, selected + 1)
    ELSE IF slots[i].medicine # 0 \/ slots[i].quantity # 0
      THEN FALSE
    ELSE CleanFrom(slots, i + 1, selected)

Clean(slots) == CleanFrom(slots, 1, 0)

\* The first loop of form_valid from slot i on: the order items collected
\* and the subtotal, or insufficient at the first selected slot whose
\* quantity exceeds the current stock of its medicine
RECURSIVE CollectFrom(_, _, _, _, _)
CollectFrom(meds, slots, i, subtotal, medicines_data) ==
    IF i > NumSlots
      THEN [insufficient |-> FALSE, subtotal |-> subtotal,
            medicines_data |-> medicines_data]
    ELSE IF slots[i].medicine # 0 /\ slots[i].quantity # 0
      THEN IF meds[slots[i].medicine].current_stock < slots[i].quantity
             THEN [insufficient |-> TRUE, subtotal |-> subtotal,
                   medicines_data |-> medicines_data]
             ELSE LET item_total == 100 * meds[slots[i].medicine].unit_price
                                        * slots[i].quantity
                  IN  CollectFrom(meds, slots, i + 1, subtotal + item_total,
                          Append(medicines_data,
                              [medicine |-> slots[i].medicine,
                               quantity |-> slots[i].quantity,
                               unit_price |->
                                   100 * meds[slots[i].medicine].unit_price,
                               total_price |-> item_total]))
    ELSE CollectFrom(meds, slots, i + 1, subtotal, medicines_data)

\* The Order row saved by form_valid with its OrderItem rows
CreatedOrder(id, delivery_method, collected) ==
    LET subtotal == collected.subtotal
        tax_amount == (subtotal * 8) \div 100
        shipping_cost == IF delivery_method = "delivery" THEN 1000 ELSE 0
        discount_amount == 0
    IN  [id |-> id, delivery_method |-> delivery_method,
         subtotal |-> subtotal, tax_amount |-> tax_amount,
         shipping_cost |-> shipping_cost,
         discount_amount |-> discount_amount,
         total_amount |->
             subtotal + tax_amount + shipping_cost - discount_amount,
         items |-> collected.medicines_data]

InitOrderCreate ==
    /\ orders = <<>>
    /\ medicines = CreateMedicines
    /\ cart_items \in {<<>>, <<[medicine |-> 1, quantity |-> 2]>>,
                       <<[medicine |-> 1, quantity |-> 2],
                         [medicine |-> 2, quantity |-> 1]>>}
    /\ forecasts = <<>>
    /\ optimizations = <<>>
    /\ trends = <<>>
    /\ history = <<>>
    /\ requests = <<>>
    /\ actual = <<>>
    /\ predicted = <<>>
    /\ outcome = Idle

\* POST to OrderCreateView by a sales rep
OrderCreateViewPost ==
    /\ Len(orders) < MaxOrders
    /\ \E slots \in SlotInputs, delivery_method \in DeliveryMethods :
          \E c \in {CollectFrom(medicines, slots, 1, 0, <<>>)} :
              LET created == Clean(slots) /\ ~c.insufficient
              IN  /\ orders' =
                         IF created
                           THEN Append(orders,
                                    CreatedOrder(Len(orders) + 1,
                                                 delivery_method, c))
                           ELSE orders
                  /\ cart_items' = IF created THEN <<>> ELSE cart_items
                  /\ outcome' = [op |-> "order_create", slots |-> slots,
                                 delivery_method |-> delivery_method,
                                 response |-> IF created THEN "redirect"
                                              ELSE "form_invalid"]
    /\ UNCHANGED <<medicines, forecasts, optimizations, trends, actual,
                   predicted, history, requests>>

NextOrderCreate ==
    \/ OrderCreateViewPost

SpecOrderCreate == InitOrderCreate /\ [][NextOrderCreate]_vars

----------------------------------------------------------------------------
(* CartAddView and CartAddAPIView of one sales rep, as requests whose      *)
(* database statements interleave.  cart_items holds the CartItem rows of  *)
(* the cart (the primary key of a row is its index); a request is          *)
(* [view, medicine, quantity, pc, pk, item_quantity, concurrent, response] *)
(* where pk and item_quantity are the row the request read and its copy of *)
(* the quantity, and concurrent records that the request started while     *)
(* another one was in flight.                                              *)

CartMedicineIds == {1, 2}

CartQuantities == {1, 2}

\* CartItem.objects.filter(cart=cart, medicine=medicine).first(): the
\* primary key of the first row of the medicine, 0 when there is none
RECURSIVE FirstCartItemFrom(_, _, _)
FirstCartItemFrom(items, medicine, i) ==
    IF i > Len(items) THEN 0
    ELSE IF items[i].medicine = medicine THEN i
    ELSE FirstCartItemFrom(items, medicine, i + 1)

FirstCartItem(items, medicine) == FirstCartItemFrom(items, medicine, 1)

CartRequest(view, medicine, quantity, pc, pk, item_quantity, response) ==
    [view |-> view, medicine |-> medicine, quantity |-> quantity, pc |-> pc,
     pk |-> pk, item_quantity |-> item_quantity,
     concurrent |-> \E k \in DOMAIN requests : requests[k].pc # "done",
     response |-> response]

InitCart ==
    /\ orders = <<>>
    /\ InitCommon

\* POST to CartAddView up to the lookup of the existing item
CartAddViewPost ==
    /\ Len(requests) < MaxAdds
    /\ \E medicine \in CartMedicineIds, quantity \in CartQuantities :
          \E pk \in {FirstCartItem(cart_items, medicine)} :
              requests' = Append(requests,
                  IF pk # 0
                    THEN CartRequest("CartAddView", medicine, quantity,
                             "save", pk, cart_items[pk].quantity, "none")
                    ELSE CartRequest("CartAddView", medicine, quantity,
                             "create", 0, 0, "none"))
    /\ UNCHANGED <<orders, medicines, forecasts, optimizations, trends,
                   actual, predicted, history, cart_items, outcome>>

\* form.save(): the INSERT of the new CartItem.  When another request has
\* inserted a row of the medicine in the meantime the database either
\* accepts the second row or, with a unique constraint on (cart,
\* medicine), raises IntegrityError
CartAddViewFormSave ==
    \E k \in DOMAIN requests :
        /\ requests[k].view = "CartAddView"
        /\ requests[k].pc = "create"
        /\ \E accepted \in
               (IF FirstCartItem(cart_items, requests[k].medicine) = 0
                  THEN {TRUE} ELSE BOOLEAN) :
              /\ cart_items' =
                     IF accepted
                       THEN Append(cart_items,
                                [medicine |-> requests[k].medicine,
                                 quantity |-> requests[k].quantity])
                       ELSE cart_items
              /\ requests' = [requests EXCEPT
                     ![k].pc = "done",
                     ![k].response = IF accepted THEN "redirect"
                                     ELSE "IntegrityError"]
        /\ UNCHANGED <<orders, medicines, forecasts, optimizations, trends,
                       actual, predicted, history, outcome>>

\* POST to CartAddAPIView up to get_or_create; medicine 3 does not exist
CartAddAPIViewPost ==
    /\ Len(requests) < MaxAdds
    /\ \E medicine \in CartMedicineIds \cup {3}, quantity \in CartQuantities :
          \E pk \in {FirstCartItem(cart_items, medicine)} :
              IF medicine \notin CartMedicineIds
                THEN /\ requests' = Append(requests,
                            CartRequest("CartAddAPIView", medicine, quantity,
                                "done", 0, 0, "404"))
                     /\ UNCHANGED cart_items
              ELSE IF pk # 0
                THEN /\ requests' = Append(requests,
                            CartRequest("CartAddAPIView", medicine, quantity,
                                "save", pk, cart_items[pk].quantity, "none"))
                     /\ UNCHANGED cart_items
                ELSE /\ requests' = Append(requests,
                            CartRequest("CartAddAPIView", medicine, quantity,
                                "done", Len(cart_items) + 1, quantity, "200"))
                     /\ cart_items' = Append(cart_items,
                            [medicine |-> medicine, quantity |-> quantity])
    /\ UNCHANGED <<orders, medicines, forecasts, optimizations, trends,
                   actual, predicted, history, outcome>>

\* quantity += ...; save() of either view: the copy the request holds,
\* increased, is written to the row
CartItemSave ==
    \E k \in DOMAIN requests :
        /\ requests[k].pc = "save"
        /\ cart_items' = [cart_items EXCEPT ![requests[k].pk].quantity =
               requests[k].item_quantity + requests[k].quantity]
        /\ requests' = [requests EXCEPT
               ![k].pc = "done",
               ![k].response = IF requests[k].view = "CartAddView"
                               THEN "redirect" ELSE "200"]
        /\ UNCHANGED <<orders, medicines, forecasts, optimizations, trends,
                       actual, predicted, history, outcome>>

NextCart ==
    \/ CartAddViewPost
    \/ CartAddViewFormSave
    \/ CartAddAPIViewPost
    \/ CartItemSave

SpecCart == InitCart /\ [][NextCart]_vars

----------------------------------------------------------------------------
(* The generate_forecast API endpoint *)

\* medicine_id of the request data; 0 stands for a request without one
ApiMedicineIdInputs == MedicineIdInputs \cup {0}

InitApi == InitService

\* POST to the generate_forecast endpoint with forecast_horizon =
\* MaxHorizon: the rows persisted and the status of the response
ApiGenerateForecast(ord, meds, fc, opt, role, medicine_id, forecast_period, lib) ==
    IF medicine_id = 0
      THEN [status |-> 400, forecasts |-> fc, optimizations |-> opt]
    ELSE IF role \notin {"admin", "pharmacist_admin"}
      THEN [status |-> 403, forecasts |-> fc, optimizations |-> opt]
    ELSE LET f == GenerateForecast(ord, meds, fc, medicine_id,
                                   forecast_period, MaxHorizon, lib)
         IN  IF f.raised
               THEN [status |-> 500, forecasts |-> fc, optimizations |-> opt]
               ELSE LET o == OptimizeInventoryLevels(
                                 f.row, meds[f.row.medicine].unit_price,
                                 DefaultServiceLevel, DefaultLeadTimeDays,
                                 DefaultHoldingCostPercentage)
                    IN  IF o.raised
                          THEN [status |-> 500,
                                forecasts |-> CreateDemandForecast(fc, f.row),
                                optimizations |-> opt]
                          ELSE [status |-> 200,
                                forecasts |-> CreateDemandForecast(fc, f.row),
                                optimizations |->
                                    Append(opt, InventoryOptimizationRow(
                                                    Len(opt) + 1, o))]

ApiGenerateForecastPost ==
    /\ Len(forecasts) < MaxRuns
    /\ \E role \in Roles, medicine_id \in ApiMedicineIdInputs,
          forecast_period \in {"weekly", "monthly"}, lib \in ServiceLibInputs :
          \E r \in {ApiGenerateForecast(orders, medicines, forecasts,
                        optimizations, role, medicine_id, forecast_period,
                        lib)} :
              /\ forecasts' = r.forecasts
              /\ optimizations' = r.optimizations
              /\ outcome' = [op |-> "api_generate_forecast", role |-> role,
                             medicine_id |-> medicine_id,
                             forecast_period |-> forecast_period,
                             lib |-> lib, status |-> r.status]
    /\ UNCHANGED <<orders, medicines, trends, actual, predicted, history,
                   cart_items, requests>>

NextApi ==
    \/ ApiGenerateForecastPost

SpecApi == InitApi /\ [][NextApi]_vars

----------------------------------------------------------------------------
(* Claims about the series builder *)


\* The first day of the period (day, week starting Monday, calendar month)
\* that contains day d
PeriodOf(g, d) ==
    IF g = "daily" THEN d ELSE IF g = "weekly" THEN d - (d % 7)
    ELSE MonthStart(d)

\* b is exactly one granularity unit after a
OneUnitLater(g, a, b) ==
    IF g = "daily" THEN b = a + 1
    ELSE IF g = "weekly" THEN b = a + 7
    ELSE /\ MonthIndex(b) = MonthIndex(a) + 1
         /\ b - MonthStart(b) = a - MonthStart(a)

\* The lines the request of the last prepare_sales_data call is about: the
\* product's lines in the window whose order is confirmed, processing,
\* shipped or delivered
Qualifying(o) ==
    SelectSeq(orders, LAMBDA l :
        /\ l.medicine = o.medicine_id
        /\ l.status \in {"confirmed", "processing", "shipped", "delivered"}
        /\ WindowStart(o.start_date) <= l.day
        /\ l.day <= WindowEnd(o.end_date))

QuantityIn(o, g, period) ==
    LET q == Qualifying(o)
    IN  SeqSum([i \in DOMAIN q |->
                  IF PeriodOf(g, q[i].day) = period THEN q[i].quantity ELSE 0])

SeriesReturned ==
    /\ outcome.op = "prepare_sales_data"
    /\ ~outcome.raised

\* C1: the series returned by prepare_sales_data holds exactly one
\* observation for every period from the minimum to the maximum observed
\* period: it starts at the minimum observed period, ends at the maximum
\* one, and consecutive observations are one granularity unit apart.
C1_GapFilledSeries ==
    SeriesReturned =>
        LET g == outcome.period_type
            q == Qualifying(outcome)
            periods == {PeriodOf(g, q[i].day) : i \in DOMAIN q}
            s == outcome.series
        IN  /\ Len(s) >= 1
            /\ s[1].date = SetMin(periods)
            /\ s[Len(s)].date = SetMax(periods)
            /\ \A i \in 1..(Len(s) - 1) :
                  OneUnitLater(g, s[i].date, s[i + 1].date)

\* C2: every observation of the returned series carries the summed
\* quantity of the qualifying lines created in its period, and the series
\* total is the total quantity of the qualifying lines.
C2_QuantitiesAreSums ==
    SeriesReturned =>
        LET g == outcome.period_type
            q == Qualifying(outcome)
            s == outcome.series
        IN  /\ \A i \in DOMAIN s :
                  s[i].quantity = QuantityIn(outcome, g, PeriodOf(g, s[i].date))
            /\ SeqSum([i \in DOMAIN s |-> s[i].quantity])
                  = SeqSum([i \in DOMAIN q |-> q[i].quantity])

\* C6: prepare_sales_data raises the no-sales-data error and returns no
\* series when the product has no line in the window whose order is
\* confirmed, processing, shipped or delivered, and it writes nothing,
\* whether it fails or returns.
C6_NoDataFailsNoWrite ==
    [][(outcome'.op = "prepare_sales_data" /\ outcome' # outcome) =>
          /\ Len(Qualifying(outcome')) = 0 =>
                /\ outcome'.raised
                /\ outcome'.error = "ValueError: No sales data found"
                /\ outcome'.series = NoSeries
          /\ orders' = orders
          /\ medicines' = medicines
          /\ forecasts' = forecasts
          /\ optimizations' = optimizations]_vars

\* The product only has lines of pending or cancelled orders in the
\* window and the call failed
C6_Witness ==
    /\ outcome.op = "prepare_sales_data"
    /\ outcome.raised
    /\ outcome.error = "ValueError: No sales data found"
    /\ \E i \in DOMAIN orders :
          /\ orders[i].medicine = outcome.medicine_id
          /\ orders[i].status \in {"pending", "cancelled"}
          /\ WindowStart(outcome.start_date) <= orders[i].day
          /\ orders[i].day <= WindowEnd(outcome.end_date)

----------------------------------------------------------------------------
(* Claims about the metrics *)

\* The term of period i in the claimed MAPE, in percent, as a rational:
\* |actual - predicted| / actual * 100, with 1 for a zero actual
ClaimedTerm(a, p) ==
    IF a = 0 THEN Ratio(Abs(a - p) * 100, 1)
    ELSE Ratio(Abs(a - p) * 100, Abs(a))

RECURSIVE ClaimedTermSum(_, _, _)
ClaimedTermSum(idx, scale, i) ==
    IF i > Len(idx) THEN 0
    ELSE LET t == ClaimedTerm(actual[idx[i]].num, predicted[idx[i]].num)
         IN  (t.num * scale) \div t.den + ClaimedTermSum(idx, scale, i + 1)

\* A common multiple of the denominators of all terms
TermScale == 20 * 10

\* C8: the MAPE returned by calculate_model_metrics is finite and >= 0
\* for every pair of equal-length arrays, and is the average over the
\* finite pairs of |actual - predicted| / actual * 100, a zero actual
\* being divided by 1.
C8_MapeFiniteNonNegative ==
    outcome.op = "calculate_model_metrics" =>
        LET mape == outcome.metrics.mape
            idx == SortedSeq({i \in DOMAIN actual :
                       actual[i].kind = "finite" /\ predicted[i].kind = "finite"})
        IN  /\ mape.kind = "finite"
            /\ mape.num >= 0
            /\ mape.den > 0
            /\ Len(idx) > 0 =>
                  mape.num * TermScale * Len(idx)
                    = ClaimedTermSum(idx, TermScale, 1) * mape.den

----------------------------------------------------------------------------
(* Claims about generate_forecast *)

ForecastReturned ==
    /\ outcome.op = "generate_forecast"
    /\ ~outcome.raised

\* C3: every persisted ForecastRun has a point forecast, a lower and an
\* upper confidence sequence of length exactly its forecast_horizon, and
\* the run persisted by a call with horizon h stores forecast_horizon = h.
C3_ForecastLengths ==
    /\ \A i \in DOMAIN forecasts :
          /\ Len(forecasts[i].forecasted_demand) = forecasts[i].forecast_horizon
          /\ Len(forecasts[i].confidence_intervals.lower)
                = forecasts[i].forecast_horizon
          /\ Len(forecasts[i].confidence_intervals.upper)
                = forecasts[i].forecast_horizon
    /\ ForecastReturned =>
          forecasts[outcome.forecast_id].forecast_horizon = outcome.horizon

\* A run was persisted by a call with horizon 2
C3_Witness ==
    /\ ForecastReturned
    /\ outcome.horizon = 2
    /\ Len(forecasts[outcome.forecast_id].forecasted_demand) = 2

\* C4: a generate_forecast call that raises (at any step) leaves the
\* persisted ForecastRuns exactly as they were before the call.
C4_FailurePersistsNothing ==
    [][(outcome'.op = "generate_forecast" /\ outcome'.raised) =>
          forecasts' = forecasts]_vars

\* The model fit raised after an earlier run had been persisted
C4_Witness ==
    /\ outcome.op = "generate_forecast"
    /\ outcome.raised
    /\ outcome.error = "ARIMA fit error"
    /\ Len(forecasts) = 1

\* C5: when the built series has fewer than 30 observations the call
\* raises the insufficient-data error naming the series length and 30;
\* when it has 30 or more the call does not raise that error, however
\* few order lines there are.
C5_InsufficientData ==
    (outcome.op = "generate_forecast"
       /\ outcome.medicine_id \in DOMAIN medicines) =>
        LET sd == PrepareSalesData(orders, outcome.medicine_id,
                                   outcome.period_type, None, None)
        IN  ~sd.raised =>
              /\ Len(sd.series) < 30 =>
                    /\ outcome.raised
                    /\ outcome.error = "ValueError: Insufficient data points"
                    /\ outcome.got = Len(sd.series)
                    /\ outcome.need = 30
              /\ Len(sd.series) >= 30 =>
                    outcome.error # "ValueError: Insufficient data points"

\* Two order lines 20 days apart: a daily series of 21 observations
C5_Witness ==
    /\ outcome.op = "generate_forecast"
    /\ outcome.raised
    /\ outcome.error = "ValueError: Insufficient data points"
    /\ outcome.got = 21
    /\ outcome.need = 30
    /\ Len(orders) = 2

\* C7: no persisted ForecastRun holds a NaN or an infinite value in rmse,
\* mae, mape, the point forecast or the confidence bounds.
C7_PersistedValuesFinite ==
    \A i \in DOMAIN forecasts :
        /\ forecasts[i].mse.kind = "finite"
        /\ forecasts[i].mae.kind = "finite"
        /\ forecasts[i].mape.kind = "finite"
        /\ AllFinite(forecasts[i].forecasted_demand)
        /\ AllFinite(forecasts[i].confidence_intervals.lower)
        /\ AllFinite(forecasts[i].confidence_intervals.upper)

----------------------------------------------------------------------------
(* Claims about optimize_inventory_levels *)

\* holding_cost_per_unit = unit_price * holding_cost_percentage / 100, in
\* hundredths
HoldingCostHundredths(medicine_id, holding_cost_percentage) ==
    medicines[medicine_id].unit_price * holding_cost_percentage

\* C9: every persisted InventoryPolicy has a reorder point, an order
\* quantity and a safety stock that are not negative, whatever the forecast
\* values and the parameters of the call that persisted it.
C9_QuantitiesNonNegative ==
    \A i \in DOMAIN optimizations :
        /\ optimizations[i].optimal_reorder_point >= 0
        /\ optimizations[i].optimal_order_quantity >= 0
        /\ optimizations[i].safety_stock >= 0

\* C10: a call with service_level outside (0, 100) or with a holding cost
\* per unit <= 0 raises and persists nothing, so that no persisted
\* InventoryPolicy has such parameters.
C10_InvalidParametersRejected ==
    /\ (/\ outcome.op = "optimize_inventory_levels"
        /\ \/ outcome.service_level <= 0
           \/ outcome.service_level >= 100
           \/ HoldingCostHundredths(forecasts[outcome.forecast_id].medicine,
                                    outcome.holding_cost_percentage) <= 0)
          => (outcome.raised /\ outcome.optimization_id = 0)
    /\ \A i \in DOMAIN optimizations :
          /\ optimizations[i].service_level > 0
          /\ optimizations[i].service_level < 100
          /\ HoldingCostHundredths(optimizations[i].medicine,
                                   optimizations[i].holding_cost_percentage) > 0

\* C11: a call with lead_time_days <= 0 raises and persists nothing, so
\* that every persisted InventoryPolicy has lead_time_days > 0.
C11_LeadTimeRejected ==
    /\ (outcome.op = "optimize_inventory_levels"
          /\ outcome.lead_time_days <= 0)
          => (outcome.raised /\ outcome.optimization_id = 0)
    /\ \A i \in DOMAIN optimizations : optimizations[i].lead_time_days > 0

\* C20: every persisted InventoryPolicy has optimal_maximum_stock equal to
\* the sum of the optimal_reorder_point and the optimal_order_quantity
\* stored on the same record.
C20_MaximumStockIsSum ==
    \A i \in DOMAIN optimizations :
        optimizations[i].optimal_maximum_stock
          = optimizations[i].optimal_reorder_point
              + optimizations[i].optimal_order_quantity

\* A persisted policy with a positive reorder point and order quantity
C20_Witness ==
    \E i \in DOMAIN optimizations :
        /\ optimizations[i].optimal_reorder_point > 0
        /\ optimizations[i].optimal_order_quantity > 0
        /\ optimizations[i].optimal_maximum_stock
             > optimizations[i].optimal_order_quantity

----------------------------------------------------------------------------
(* Claims about the reorder alerts *)

\* C15: for every stock level and every positive optimal_reorder_point the
\* priority is urgent when the ratio is <= 0.5, high when it is in
\* (0.5, 0.75], medium when it is in (0.75, 1.0] and low above 1.0.
C15_PriorityThresholds ==
    (outcome.op = "_calculate_priority"
       /\ optimizations[outcome.optimization].optimal_reorder_point > 0) =>
        LET s == 100 * medicines[outcome.medicine].current_stock
            r == optimizations[outcome.optimization].optimal_reorder_point
        IN  /\ ~outcome.raised
            /\ outcome.priority = "urgent" <=> s <= 50 * r
            /\ outcome.priority = "high" <=> (50 * r < s /\ s <= 75 * r)
            /\ outcome.priority = "medium" <=> (75 * r < s /\ s <= 100 * r)
            /\ outcome.priority = "low" <=> 100 * r < s

\* The ratio is exactly 0.75 (6 / 8) and the priority is high
C15_Witness ==
    /\ outcome.op = "_calculate_priority"
    /\ medicines[outcome.medicine].current_stock = 6
    /\ optimizations[outcome.optimization].optimal_reorder_point = 8
    /\ outcome.priority = "high"

AlertsReturned == outcome.op = "generate_reorder_alerts"

PriorityRank(priority) ==
    IF priority = "urgent" THEN 3 ELSE IF priority = "high" THEN 2
    ELSE IF priority = "medium" THEN 1 ELSE 0

----------------------------------------------------------------------------
(* Claims about the sales trends *)

SameSeries(a, b) ==
    a.medicine = b.medicine /\ a.period_type = b.period_type

\* The stored records of the series of trends[i] that come before it
EarlierTrends(i) ==
    {j \in DOMAIN trends :
        /\ SameSeries(trends[j], trends[i])
        /\ trends[j].period_date < trends[i].period_date}

\* C16: the stored growth_rate of a TrendRecord is null when it is the
\* first period of its series and when the quantity_sold of the
\* immediately preceding stored period is 0.
C16_GrowthRateNullAfterZero ==
    \A i \in DOMAIN trends :
        /\ EarlierTrends(i) = {} => trends[i].growth_rate = None
        /\ \A j \in EarlierTrends(i) :
              ((\A k \in EarlierTrends(i) :
                    trends[k].period_date <= trends[j].period_date)
                 /\ trends[j].quantity_sold = 0)
                => trends[i].growth_rate = None

UniqueTrendKeys ==
    \A i, j \in DOMAIN trends :
        (SameSeries(trends[i], trends[j])
           /\ trends[i].period_date = trends[j].period_date) => i = j

\* A successful update_sales_trends step keeps every record where it is,
\* with its key, and a record of a period of the call's series carries the
\* quantity, revenue and price of that period
UpsertInPlace ==
    (outcome'.op = "update_sales_trends" /\ ~outcome'.raised) =>
        LET sd == PrepareSalesData(orders, outcome'.medicine_id,
                                   outcome'.period_type, None, None)
            price == medicines[outcome'.medicine_id].unit_price
        IN  /\ Len(trends') >= Len(trends)
            /\ \A i \in DOMAIN trends :
                  /\ SameSeries(trends'[i], trends[i])
                  /\ trends'[i].period_date = trends[i].period_date
            /\ \A k \in DOMAIN sd.series :
                  \E i \in DOMAIN trends' :
                      /\ trends'[i].medicine = outcome'.medicine_id
                      /\ trends'[i].period_type = outcome'.period_type
                      /\ trends'[i].period_date = sd.series[k].date
                      /\ trends'[i].quantity_sold = sd.series[k].quantity
                      /\ trends'[i].revenue = sd.series[k].quantity * price
                      /\ trends'[i].average_price = price

\* The same call repeated with no change of the orders in between
RepeatedCall ==
    /\ outcome.op = "update_sales_trends"
    /\ ~outcome.raised
    /\ outcome' = outcome

\* C17: there is at most one TrendRecord per (medicine, period type,
\* period); a call overwrites the records of the periods it covers in
\* place; a call repeated on unchanged sales data changes no record.
C17_IdempotentUpsert ==
    /\ []UniqueTrendKeys
    /\ [][UpsertInPlace /\ (RepeatedCall => trends' = trends)]_vars

\* The second record was overwritten with quantity 0 after its order was
\* cancelled: the third still has the growth rate computed from quantity 1
C17_Witness ==
    /\ outcome.op = "update_sales_trends"
    /\ ~outcome.raised
    /\ Len(trends) = 3
    /\ trends[2].quantity_sold = 0
    /\ trends[3].growth_rate = Ratio(200, 1)

----------------------------------------------------------------------------
(* Claims about the persisted forecasts and the bulk operations *)

\* Every forecast row of the state is a row of the next state, with the
\* same fields
ForecastsKept ==
    \A i \in DOMAIN forecasts :
        i \in DOMAIN forecasts' /\ forecasts'[i] = forecasts[i]

\* C18: once a forecast row is persisted, no later generate_forecast,
\* generate_bulk_forecasts, optimize_inventory_levels, update_sales_trends
\* or generate_reorder_alerts call changes a field of it or removes it; a
\* later forecast of the same medicine adds a row and leaves the earlier
\* rows as they were.
C18_ForecastRowsNeverChange == [][ForecastsKept]_vars

\* Two forecasts of the same medicine, a policy and trend rows are
\* persisted, and the last call generated the reorder alerts
C18_Witness ==
    /\ Len(forecasts) >= 2
    /\ forecasts[1].medicine = forecasts[2].medicine
    /\ optimizations # <<>>
    /\ trends # <<>>
    /\ outcome.op = "generate_reorder_alerts"

\* The i-th medicine of the last bulk call has enough sales data and its
\* model fits: generate_forecast alone succeeds for it
ItemForecastSucceeds(i) ==
    /\ ~Precheck(orders, medicines, outcome.medicine_ids[i], "weekly").raised
    /\ outcome.libs[i].fit = "ok"

\* The positions of the input whose forecast succeeds, in input order
SucceedingItems ==
    SelectSeq([i \in DOMAIN outcome.medicine_ids |-> i],
              LAMBDA i : ItemForecastSucceeds(i))

\* generate_bulk_forecasts returns, without raising, one new forecast row
\* for every item whose forecast succeeds, in input order
BulkForecastsSkipFailures ==
    outcome.op = "generate_bulk_forecasts" =>
        /\ ~outcome.raised
        /\ Len(outcome.result) = Len(SucceedingItems)
        /\ \A k \in DOMAIN outcome.result :
              /\ outcome.result[k] \in DOMAIN forecasts
              /\ forecasts[outcome.result[k]].medicine =
                    outcome.medicine_ids[SucceedingItems[k]]
              /\ \A l \in DOMAIN outcome.result :
                    k < l => outcome.result[k] < outcome.result[l]

\* The medicines that have an entry in the result of optimize_supply_chain
ResultKeys == {outcome.result[k][1] : k \in DOMAIN outcome.result}

\* optimize_supply_chain returns, without raising, an optimization for
\* exactly the medicines of the input whose forecast succeeds
SupplyChainSkipsFailures ==
    outcome.op = "optimize_supply_chain" =>
        /\ ~outcome.raised
        /\ ResultKeys =
              {outcome.medicine_ids[i] : i \in DOMAIN SucceedingItems}
        /\ \A k \in DOMAIN outcome.result :
              /\ outcome.result[k][2] \in DOMAIN optimizations
              /\ optimizations[outcome.result[k][2]].medicine =
                    outcome.result[k][1]

\* C19: generate_bulk_forecasts and optimize_supply_chain never raise, and
\* the result holds one forecast row (one optimization) for every medicine
\* of the input whose individual forecast succeeds, in input order, and
\* nothing for the medicines that fail.
C19_BulkSkipsFailures ==
    BulkForecastsSkipFailures /\ SupplyChainSkipsFailures

\* The forecast row that optimize_supply_chain persisted for the k-th
\* succeeding item: the call appends one row for each of them
RowOfSucceedingItem(k) ==
    forecasts[Len(forecasts) - Len(SucceedingItems) + k]

\* A succeeding item whose forecast row the optimizer accepts
ItemOptimizationSucceeds(k) ==
    ~OptimizeInventoryLevels(
         RowOfSucceedingItem(k),
         medicines[outcome.medicine_ids[SucceedingItems[k]]].unit_price,
         DefaultServiceLevel, DefaultLeadTimeDays,
         DefaultHoldingCostPercentage).raised

\* What optimize_supply_chain does: a medicine has an entry exactly when
\* the forecast and the optimization of one of its items both succeed
SupplyChainSkipsFailedOptimizations ==
    outcome.op = "optimize_supply_chain" =>
        /\ ~outcome.raised
        /\ ResultKeys =
              {outcome.medicine_ids[SucceedingItems[k]] :
                  k \in {j \in DOMAIN SucceedingItems :
                            ItemOptimizationSucceeds(j)}}

\* The bulk forecast skipped a failing item and returned the forecasts of
\* the other one
BulkSkippedOneItem ==
    /\ outcome.op = "generate_bulk_forecasts"
    /\ Len(outcome.medicine_ids) = 2
    /\ Len(outcome.result) = 1

----------------------------------------------------------------------------
(* Claims about repeated optimizations *)

\* Policies a and b were computed from the same forecast, b with the
\* larger holding cost percentage (service level and lead time are the
\* defaults in both)
LargerHoldingCost(a, b) ==
    /\ optimizations[a].demand_forecast = optimizations[b].demand_forecast
    /\ optimizations[a].service_level = optimizations[b].service_level
    /\ optimizations[a].lead_time_days = optimizations[b].lead_time_days
    /\ optimizations[a].holding_cost_percentage
          < optimizations[b].holding_cost_percentage

\* C21 as stated: for a fixed forecast with positive annual demand and a
\* fixed positive unit price, any increase of holding_cost_percentage
\* strictly decreases the order quantity.
C21_OrderQuantityStrictlyDecreases ==
    \A a, b \in DOMAIN optimizations :
        LargerHoldingCost(a, b) =>
            optimizations[a].optimal_order_quantity
                > optimizations[b].optimal_order_quantity

\* C21: for a fixed forecast with positive annual demand and a fixed
\* positive unit price, an increase of holding_cost_percentage never
\* increases the order quantity (the integer part of the EOQ can stay the
\* same).
C21_OrderQuantityNeverIncreases ==
    \A a, b \in DOMAIN optimizations :
        LargerHoldingCost(a, b) =>
            optimizations[a].optimal_order_quantity
                >= optimizations[b].optimal_order_quantity

\* Two policies of one forecast, the one with the larger holding cost
\* percentage having the smaller order quantity
C21_Witness ==
    \E a, b \in DOMAIN optimizations :
        /\ LargerHoldingCost(a, b)
        /\ optimizations[a].optimal_order_quantity
              > optimizations[b].optimal_order_quantity

\* Policy a of a daily forecast and policy b of a weekly forecast with the
\* same point values, computed with the same parameters
DailyAndWeekly(a, b) ==
    LET fa == forecasts[optimizations[a].demand_forecast]
        fb == forecasts[optimizations[b].demand_forecast]
    IN  /\ fa.forecast_period = "daily"
        /\ fb.forecast_period = "weekly"
        /\ fa.forecasted_demand = fb.forecasted_demand
        /\ fa.medicine = fb.medicine
        /\ optimizations[a].service_level = optimizations[b].service_level
        /\ optimizations[a].lead_time_days = optimizations[b].lead_time_days
        /\ optimizations[a].holding_cost_percentage
              = optimizations[b].holding_cost_percentage

\* C22: optimize_inventory_levels scales by the granularity of the
\* forecast: a daily and a weekly forecast with identical positive point
\* values get different reorder points and different annual demands (the
\* stockout cost and the order quantity are functions of the annual
\* demand).
C22_ScalesByGranularity ==
    \A a, b \in DOMAIN optimizations :
        DailyAndWeekly(a, b) =>
            /\ optimizations[a].optimal_reorder_point
                  # optimizations[b].optimal_reorder_point
            /\ optimizations[a].expected_stockout_cost
                  # optimizations[b].expected_stockout_cost
            /\ optimizations[a].optimal_order_quantity
                  # optimizations[b].optimal_order_quantity

----------------------------------------------------------------------------
(* Claims about the trend indicators *)

\* The stored record immediately before trends[i] in its series
IsPrecedingTrend(j, i) ==
    /\ j \in EarlierTrends(i)
    /\ \A k \in EarlierTrends(i) :
          trends[k].period_date <= trends[j].period_date

\* C23: every stored record whose immediately preceding stored period has
\* quantity_sold > 0 has growth_rate = (current - previous) / previous * 100
\* of the two stored quantities, and trend_direction 'up' when that is
\* above 5, 'down' when it is below -5 and 'stable' otherwise, 5 and -5
\* included.
C23_GrowthRateAndDirection ==
    \A i, j \in DOMAIN trends :
        (IsPrecedingTrend(j, i) /\ trends[j].quantity_sold > 0) =>
            LET previous == trends[j].quantity_sold
                current == trends[i].quantity_sold
            IN  /\ trends[i].growth_rate # None
                /\ trends[i].growth_rate.num * previous
                      = 100 * (current - previous) * trends[i].growth_rate.den
                /\ trends[i].trend_direction =
                      IF 100 * (current - previous) > 5 * previous THEN "up"
                      ELSE IF 100 * (current - previous) < -5 * previous
                        THEN "down"
                      ELSE "stable"

\* update_sales_trends returned and stored a growth rate of exactly 5
\* percent (20 to 21) as 'stable', next to an 'up' and a 'down' record
C23_Witness ==
    /\ outcome.op = "update_sales_trends"
    /\ ~outcome.raised
    /\ \E i, j \in DOMAIN trends :
          /\ IsPrecedingTrend(j, i)
          /\ trends[j].quantity_sold = 20
          /\ trends[i].quantity_sold = 21
          /\ trends[i].trend_direction = "stable"
    /\ \E i \in DOMAIN trends : trends[i].trend_direction = "down"

----------------------------------------------------------------------------
(* Claims about concurrent update_sales_trends calls *)

\* The rows left by call a running alone and then call b running alone,
\* each with the sales data it has read
SerialTrends(a, b) ==
    StoreTrends(StoreTrends(<<>>, medicines, requests[a].medicine_id,
                            requests[a].period_type, requests[a].series),
                medicines, requests[b].medicine_id, requests[b].period_type,
                requests[b].series)

\* C24: two concurrent update_sales_trends calls of the same medicine and
\* period type are serialized: when both have returned, the stored rows
\* are those of one of the two serial orders of the calls.
C24_ConcurrentCallsSerialized ==
    (requests[1].pc = "done" /\ requests[2].pc = "done") =>
        trends \in {SerialTrends(1, 2), SerialTrends(2, 1)}

----------------------------------------------------------------------------
(* Claims about the order selection *)

\* C25: find_optimal_arima_params never raises; when the search succeeds
\* it returns the order (p, d, q) of the selected model, p and q within
\* 0..5, and when the search fails it returns exactly (1, 1, 1).
C25_SelectorNeverRaises ==
    outcome.op = "find_optimal_arima_params" =>
        /\ ~outcome.raised
        /\ Len(outcome.order) = 3
        /\ outcome.order[1] \in 0..5
        /\ outcome.order[3] \in 0..5
        /\ outcome.auto_arima = <<>> => outcome.order = <<1, 1, 1>>
        /\ outcome.auto_arima # <<>> => outcome.order = outcome.auto_arima

\* The search failed and the call returned the default order
C25_Witness ==
    /\ outcome.op = "find_optimal_arima_params"
    /\ outcome.auto_arima = <<>>
    /\ outcome.order = <<1, 1, 1>>

----------------------------------------------------------------------------
(* Claims about the order status views *)

\* The step changes the status or the payment status of order k
StatusChanged(k) ==
    \/ orders'[k].status # orders[k].status
    \/ orders'[k].payment_status # orders[k].payment_status

\* C26: every change of the status or payment status of an order by
\* OrderStatusUpdateView or OrderCancelView creates exactly one
\* OrderStatusHistory entry, with the values stored before the request as
\* the old ones and the saved values as the new ones.
C26_StatusChangesRecorded ==
    [][\A k \in DOMAIN orders :
          StatusChanged(k) =>
              history' = Append(history,
                            OrderStatusHistoryRow(
                                orders[k].id, orders[k].status,
                                orders'[k].status, orders[k].payment_status,
                                orders'[k].payment_status))]_vars

\* C27: an order stored as pending becomes confirmed through
\* OrderStatusUpdateView only if check_stock_availability reports the
\* stock as available; when it reports unavailable the stored order is
\* unchanged (status, payment status, confirmed_at) and no history entry
\* is created.
C27_ConfirmedOnlyWithStock ==
    [][\A k \in DOMAIN orders :
          (/\ orders[k].status = "pending"
           /\ outcome'.op = "order_status_update"
           /\ outcome'.order = k
           /\ outcome'.status = "confirmed"
           /\ ~outcome'.is_available)
            => /\ orders'[k] = orders[k]
               /\ history' = history]_vars

----------------------------------------------------------------------------
(* Claims about the order creation view *)

\* The total quantity requested for medicine m over the slots of a form
RECURSIVE RequestedFrom(_, _, _)
RequestedFrom(slots, m, i) ==
    IF i > Len(slots) THEN 0
    ELSE (IF slots[i].medicine = m THEN slots[i].quantity ELSE 0)
           + RequestedFrom(slots, m, i + 1)

\* For every medicine the total requested quantity is within its stock
StockCoversForm(slots) ==
    \A m \in DOMAIN medicines :
        RequestedFrom(slots, m, 1) <= medicines[m].current_stock

\* C28: OrderCreateView creates an order only when, for every medicine of
\* the form, the total quantity requested over the slots is at most its
\* current_stock; otherwise no Order and no OrderItem is created and the
\* cart is unchanged.  When an order is created the cart is emptied and
\* total_amount = subtotal + tax_amount + shipping_cost - discount_amount.
C28_OrderOnlyWithinStock ==
    [][outcome'.op = "order_create" =>
          IF StockCoversForm(outcome'.slots) /\ Len(orders') > Len(orders)
            THEN /\ cart_items' = <<>>
                 /\ LET o == orders'[Len(orders')]
                    IN  o.total_amount = o.subtotal + o.tax_amount
                                           + o.shipping_cost
                                           - o.discount_amount
            ELSE /\ StockCoversForm(outcome'.slots)
                      \/ (orders' = orders /\ cart_items' = cart_items)]_vars

\* Part of C28 that holds: a selected slot asking for more than the
\* current stock of its medicine stops the creation, and a created order
\* empties the cart and has the total of the formula.
C28_OrderOnlyWithinStockPerSlot ==
    [][outcome'.op = "order_create" =>
          IF Len(orders') > Len(orders)
            THEN /\ \A i \in 1..NumSlots :
                        outcome'.slots[i].medicine # 0 =>
                            outcome'.slots[i].quantity
                              <= medicines[outcome'.slots[i].medicine].current_stock
                 /\ cart_items' = <<>>
                 /\ LET o == orders'[Len(orders')]
                    IN  o.total_amount = o.subtotal + o.tax_amount
                                           + o.shipping_cost
                                           - o.discount_amount
            ELSE orders' = orders /\ cart_items' = cart_items]_vars

----------------------------------------------------------------------------
(* Claims about the cart views *)

\* The total quantity of the adds of a medicine that were answered
\* without an error
RECURSIVE AddedFrom(_, _)
AddedFrom(medicine, k) ==
    IF k > Len(requests) THEN 0
    ELSE (IF requests[k].medicine = medicine
               /\ requests[k].response \in {"redirect", "200"}
            THEN requests[k].quantity ELSE 0)
           + AddedFrom(medicine, k + 1)

\* The cart holds one row per added medicine, with the sum of its adds
CartHoldsSumOfAdds ==
    \A medicine \in CartMedicineIds :
        LET rows == {i \in DOMAIN cart_items :
                        cart_items[i].medicine = medicine}
        IN  /\ Cardinality(rows) <= 1
            /\ \A i \in rows :
                   cart_items[i].quantity = AddedFrom(medicine, 1)
            /\ AddedFrom(medicine, 1) > 0 => rows # {}

AllAddsDone == \A k \in DOMAIN requests : requests[k].pc = "done"

\* C29: after any sequence or interleaving of add-to-cart requests
\* through CartAddView and CartAddAPIView, the cart holds at most one
\* CartItem per medicine and its quantity is the sum of the quantities
\* added for that medicine.
C29_OneItemPerMedicineWithSum == AllAddsDone => CartHoldsSumOfAdds

\* Part of C29 that holds: requests that do not overlap
C29_OneItemPerMedicineWithSumSequential ==
    (AllAddsDone /\ \A k \in DOMAIN requests : ~requests[k].concurrent)
        => CartHoldsSumOfAdds

----------------------------------------------------------------------------
(* Claims about the API endpoint *)

\* C30: the generate_forecast endpoint is all-or-nothing: a request
\* answered with an error (400, 403, 500) has persisted no forecast and no
\* optimization, a request answered with success has persisted exactly one
\* forecast and one optimization derived from it, and a request of a user
\* who is neither admin nor pharmacist admin persists nothing.
C30_EndpointAllOrNothing ==
    [][outcome'.op = "api_generate_forecast" =>
          /\ IF outcome'.status = 200
               THEN /\ Len(forecasts') = Len(forecasts) + 1
                    /\ Len(optimizations') = Len(optimizations) + 1
                    /\ optimizations'[Len(optimizations')].demand_forecast
                         = forecasts'[Len(forecasts')].id
               ELSE /\ forecasts' = forecasts
                    /\ optimizations' = optimizations
          /\ outcome'.role \notin {"admin", "pharmacist_admin"}
               => /\ forecasts' = forecasts
                  /\ optimizations' = optimizations]_vars

\* Part of C30 that holds: 400 and 403 persist nothing, success persists
\* one forecast and one optimization, and no response leaves an
\* optimization without the forecast.
C30_EndpointRejectionsPersistNothing ==
    [][outcome'.op = "api_generate_forecast" =>
          /\ outcome'.status \in {400, 403}
               => /\ forecasts' = forecasts
                  /\ optimizations' = optimizations
          /\ outcome'.status = 200
               => /\ Len(forecasts') = Len(forecasts) + 1
                  /\ Len(optimizations') = Len(optimizations) + 1
          /\ outcome'.status = 500 => optimizations' = optimizations
          /\ outcome'.role \notin {"admin", "pharmacist_admin"}
               => outcome'.status \in {400, 403}]_vars

====
